---- MODULE Spec2Model ----
(***************************************************************************)
(* EV charger simulator: the simulation engine run_simulation              *)
(* (backend/packages/simulation/core.py).                                  *)
(*                                                                         *)
(* Numbers.  The engine computes on floats; the model computes on exact    *)
(* fixed-point integers:                                                   *)
(*   - a pseudorandom draw r in [0,1) is r * RandMax, an integer in        *)
(*     0..RandMax-1 (four decimals);                                       *)
(*   - probabilities and cumulative thresholds use the same scale;         *)
(*   - arrival_multiplier is counted in tenths, the hourly percentages in  *)
(*     hundredths of a percent;                                            *)
(*   - energies are integers of one energy unit and power ratings are     *)
(*     multiples of 4, so that power_kw * 0.25 is exact.  The two small    *)
(*     numbers of the code keep their order and are scaled with the unit:  *)
(*     the clamp threshold 1e-9 is Eps units and the output grid of        *)
(*     round(x, 2) is RoundQuantum units (0 < Eps < RoundQuantum).         *)
(* Sums of power ratings (the instantaneous load and the theoretical       *)
(* maximum) are bounded by the fleet, and are computed as the code         *)
(* computes them: in binary floating point, here with a significand of     *)
(* MantBits bits, each addition and multiplication rounded to nearest,     *)
(* ties to even.  A rating below 2^MantBits with few slots has exact       *)
(* sums (the code's 11.0 or 22.0); a rating that fills the significand     *)
(* has not (the code's 0.3).  The grid of round(x, 3) is CfScale-ths: it   *)
(* stays coarser than the relative rounding error, as 1e-3 is coarser      *)
(* than 2^-53.  Accumulated energies and per-period totals are exact.      *)
(* The ambient generator of Python's random module is a 16-bit linear      *)
(* congruential generator: seeded, it is a deterministic function of the   *)
(* seed, and every run of the process shares its one state.                *)
(***************************************************************************)
EXTENDS Integers, Sequences, FiniteSets, TLC

\* an Optional value is a sequence of at most one element
None == << >>
Some(x) == << x >>

\* ------------------------------------------------------------------ bounds

\* the number of calls of run_simulation the process makes in a behaviour
MaxCalls == 2

\* ------------------------------------------------------- program constants

TICKS_PER_HOUR == 4
DAYS_SIMULATED == 365
RandMax == 10000
Eps == 2
RoundQuantum == 10
CfScale == 10
MantBits == 8
LcgMod == 65536
LcgMul == 25173
LcgInc == 13849

\* hour-of-day arrival percentages, in hundredths of a percent
_ARRIVAL_PCT_PER_HOUR ==
    << 94, 94, 94, 94, 94, 94, 94, 94,
       283, 283,
       566, 566, 566,
       755, 755, 755,
       1038, 1038, 1038,
       472, 472, 472,
       94, 94 >>

\* the demand table the module builds its cumulative table from:
\* <<percentage in hundredths of a percent, km>>
DemandTable ==
    << <<3431, 0>>, <<490, 5>>, <<980, 10>>, <<1176, 20>>, <<882, 30>>,
       <<1176, 50>>, <<1078, 100>>, <<490, 200>>, <<294, 300>> >>

RECURSIVE Cumulate(_, _)
\* the module-level loop: _temp += pct / 100.0; append (_temp, km)
Cumulate(n, temp) ==
    IF n > Len(DemandTable) THEN << >>
    ELSE LET t == temp + DemandTable[n][1]
         IN  << <<t, DemandTable[n][2]>> >> \o Cumulate(n + 1, t)

_DEMAND_CUMULATIVE == Cumulate(1, 0)

\* ---------------------------------------------------------------- calendar

IsLeap(y) == (y % 4 = 0) /\ ((y % 100 # 0) \/ (y % 400 = 0))

DaysInMonth(y, m) ==
    IF m = 2 THEN (IF IsLeap(y) THEN 29 ELSE 28)
    ELSE IF m \in {4, 6, 9, 11} THEN 30 ELSE 31

RECURSIVE DaysBeforeMonth(_, _)
DaysBeforeMonth(y, m) ==
    IF m = 1 THEN 0 ELSE DaysBeforeMonth(y, m - 1) + DaysInMonth(y, m - 1)

\* datetime.date.toordinal: days since 0001-01-01, that day being 1
Ordinal(d) ==
    LET y1 == d.year - 1
    IN  365 * y1 + (y1 \div 4) - (y1 \div 100) + (y1 \div 400)
        + DaysBeforeMonth(d.year, d.month) + d.day

MkDate(y, m, d) == [year |-> y, month |-> m, day |-> d]

\* datetime.date.weekday: Monday is 0, Sunday is 6
Weekday(d) == (Ordinal(d) + 6) % 7

\* date - timedelta(days=1)
PrevDay(d) ==
    IF d.day > 1 THEN MkDate(d.year, d.month, d.day - 1)
    ELSE IF d.month > 1
         THEN MkDate(d.year, d.month - 1, DaysInMonth(d.year, d.month - 1))
         ELSE MkDate(d.year - 1, 12, 31)

\* date + timedelta(days=1)
NextDay(d) ==
    IF d.day < DaysInMonth(d.year, d.month)
    THEN MkDate(d.year, d.month, d.day + 1)
    ELSE IF d.month < 12 THEN MkDate(d.year, d.month + 1, 1)
         ELSE MkDate(d.year + 1, 1, 1)

\* datetime.date(year, 1, 1) + timedelta(days=n), for 0 <= n < 365: the
\* date stays in the year
AddDays(year, n) ==
    LET m == CHOOSE k \in 1..12 :
                 /\ DaysBeforeMonth(year, k) <= n
                 /\ n < DaysBeforeMonth(year, k) + DaysInMonth(year, k)
    IN  MkDate(year, m, n - DaysBeforeMonth(year, m) + 1)

RECURSIVE BackToSunday(_)
BackToSunday(d) == IF Weekday(d) # 6 THEN BackToSunday(PrevDay(d)) ELSE d

RECURSIVE BackToSaturday(_)
BackToSaturday(d) == IF Weekday(d) # 5 THEN BackToSaturday(PrevDay(d)) ELSE d

\* _last_sunday stepping back to weekday 5 instead of 6
LastSaturday(year, month) ==
    BackToSaturday(PrevDay(MkDate(year, month + 1, 1)))

\* _last_sunday(year, month): the day before the first of month + 1, then
\* backwards to a Sunday
_last_sunday(year, month) ==
    BackToSunday(PrevDay(MkDate(year, month + 1, 1)))

\* the Monday that starts ISO week 1 of year y, as an ordinal
IsoWeek1Monday(y) ==
    LET firstday == Ordinal(MkDate(y, 1, 1))
        firstweekday == (firstday + 6) % 7
        week1monday == firstday - firstweekday
    IN  IF firstweekday > 3 THEN week1monday + 7 ELSE week1monday

\* date.isocalendar()[1]: the ISO week number, without its ISO year
IsoWeek(d) ==
    LET today == Ordinal(d)
        w == today - IsoWeek1Monday(d.year)
    IN  IF w < 0
        THEN ((today - IsoWeek1Monday(d.year - 1)) \div 7) + 1
        ELSE IF (w \div 7) >= 52 /\ today >= IsoWeek1Monday(d.year + 1)
             THEN 1
             ELSE (w \div 7) + 1

\* the tick count of a day without the branch of the 25-hour day
TicksOfDayNoFall(date, spring, fall) ==
    IF date = spring THEN 23 * TICKS_PER_HOUR
    ELSE 24 * TICKS_PER_HOUR

\* the tick count of a day: lines 251-256
TicksOfDay(date, spring, fall) ==
    IF date = spring THEN 23 * TICKS_PER_HOUR
    ELSE IF date = fall THEN 25 * TICKS_PER_HOUR
    ELSE 24 * TICKS_PER_HOUR

\* --------------------------------------------------------------- generator

\* random.seed(s) for an integer s: the state is a function of s alone
SeedState(s) == (s * 7919 + 104729) % LcgMod

\* the states random.seed(None) may leave: operating-system entropy
EntropyStates == {11, 40503}

Lcg(s) == (LcgMul * s + LcgInc) % LcgMod

\* random.random(): the next state, and the draw it yields in 0..RandMax-1
DrawOf(s) == (s * RandMax) \div LcgMod

\* ------------------------------------------------------------ arithmetic

Min(a, b) == IF a <= b THEN a ELSE b
Max(a, b) == IF a >= b THEN a ELSE b

RECURSIVE IsqrtIn(_, _, _)
\* the largest k in lo..hi with k * k <= n
IsqrtIn(n, lo, hi) ==
    IF lo >= hi THEN lo
    ELSE LET mid == (lo + hi + 1) \div 2
         IN  IF mid * mid <= n THEN IsqrtIn(n, mid, hi)
             ELSE IsqrtIn(n, lo, mid - 1)

Isqrt(n) == IsqrtIn(n, 0, RandMax)

\* round(x / q) to the nearest integer, ties to the even one (Python's round)
RoundHalfEven(x, q) ==
    LET f == x \div q
        r == x % q
    IN  IF 2 * r < q THEN f
        ELSE IF 2 * r > q THEN f + 1
        ELSE IF f % 2 = 0 THEN f ELSE f + 1

\* round(total_energy, 2): the nearest point of the output grid
Round2(x) == RoundHalfEven(x, RoundQuantum) * RoundQuantum

RECURSIVE Pow2(_)
Pow2(k) == IF k = 0 THEN 1 ELSE 2 * Pow2(k - 1)

RECURSIVE BitLen(_)
\* the number of binary digits of x >= 0
BitLen(x) == IF x = 0 THEN 0 ELSE 1 + BitLen(x \div 2)

\* the float nearest to the real x >= 0: x cut to MantBits significant
\* bits, ties to even
Fl(x) ==
    IF BitLen(x) <= MantBits THEN x
    ELSE LET ulp == Pow2(BitLen(x) - MantBits)
         IN  RoundHalfEven(x, ulp) * ulp

\* float addition and multiplication: the exact result, rounded once
FAdd(a, b) == Fl(a + b)
FMul(a, b) == Fl(a * b)

\* ---------------------------------------------------------- arrival model

\* one entry of p_tick (lines 208-213) for an hourly percentage pct and a
\* multiplier mult, on the scale of the draws.  1 - pct*mult/100 is
\* x / 100000; a negative x makes x ** 0.25 a complex number, and min() of
\* a complex and a float raises TypeError.
PTickFaults(pct, mult) == 100000 - pct * mult < 0

\* p_tick without the complement: min((1 - p) ** 0.25, 1.0)
PTickOfNoComplement(pct, mult) ==
    LET x == 100000 - pct * mult
        root4 == Isqrt(Isqrt(x * 1000) * RandMax)
    IN  Min(root4, RandMax)

PTickOf(pct, mult) ==
    LET x == 100000 - pct * mult
        root4 == Isqrt(Isqrt(x * 1000) * RandMax)
    IN  Min(RandMax - root4, RandMax)

\* ---------------------------------------------------------- demand sampler

RECURSIVE ScanDemandStrict(_, _)
\* the scan comparing with r < threshold
ScanDemandStrict(r, n) ==
    IF n > Len(_DEMAND_CUMULATIVE) THEN 0
    ELSE IF r < _DEMAND_CUMULATIVE[n][1] THEN _DEMAND_CUMULATIVE[n][2]
    ELSE ScanDemandStrict(r, n + 1)

RECURSIVE ScanDemand(_, _)
\* for threshold, km in _DEMAND_CUMULATIVE: if r <= threshold: return km
ScanDemand(r, n) ==
    IF n > Len(_DEMAND_CUMULATIVE) THEN 0
    ELSE IF r <= _DEMAND_CUMULATIVE[n][1] THEN _DEMAND_CUMULATIVE[n][2]
    ELSE ScanDemand(r, n + 1)

\* the km of a draw r
SampleKm(r) == ScanDemand(r, 1)

\* _sample_km(): one draw of the ambient generator left in state s
_sample_km(s) == [rng |-> Lcg(s), km |-> SampleKm(DrawOf(Lcg(s)))]

\* ------------------------------------------------------------------ state

VARIABLES
    rng,              \* the state of the ambient generator of module random
    pc,               \* "idle", "loop" (in the day loop), "tick" (in the
                      \* tick loop), "done" (returned), "raised"
    error,            \* the exception a raised call left, or None
    calls,            \* the calls of run_simulation made so far
    config,           \* the SimulationConfig of the current call
    p_tick,           \* the per-tick arrival probabilities, by hour
    spring_forward,   \* the 23-hour day
    fall_back,        \* the 25-hour day
    charger_states,   \* the slots: [power_kw, remaining, energy_per_tick]
    total_energy,
    actual_max_kw,
    charging_events,  \* the ChargingEvents, in emission order
    events_by_day,    \* period -> charger_type -> [count, total_power]
    events_by_week,
    events_by_month,
    events_by_year,
    day,              \* the day loop's index
    date,
    ticks_today,
    tick_in_day,      \* the tick loop's index
    last,             \* what the last executed tick did (observation)
    ticks_run,        \* ticks executed by the current call (observation)
    result,           \* the returned SimulationResult, or None
    seen,             \* the calls that returned: <<config, result>> each
    sample,           \* a lone call of _sample_km: [draw, km], or None
    other,            \* another run in the same process: its position
    db,               \* the database: the rows of each table
    svc,              \* the service: the request in hand and the last reply
    handlers          \* the run requests in flight on the event loop

vars ==
    << rng, pc, error, calls, config, p_tick, spring_forward, fall_back,
       charger_states, total_energy, actual_max_kw, charging_events,
       events_by_day, events_by_week, events_by_month, events_by_year,
       day, date, ticks_today, tick_in_day, last, ticks_run, result, seen,
       sample, other, db, svc, handlers >>

\* what a call of run_simulation never touches
outside == << other, db, svc, handlers >>

EmptyMap == [k \in {} |-> 0]

NoDate == MkDate(0, 0, 0)

NoTick ==
    [ day |-> -1, tick_in_day |-> -1, hour_idx |-> -1, minute |-> -1,
      p_arrival |-> 0, before |-> << >>, free_indices |-> << >>,
      tested |-> << >>, draws |-> << >>, emitted |-> << >>,
      after_serve |-> << >>, load_kw |-> 0, events_before |-> 0,
      energy_before |-> 0, energy_after_serve |-> 0 ]

\* ----------------------------------------------------------- the tick body

\* Charger.energy_per_tick_kwh: power_kw * 0.25
energy_per_tick_kwh(power_kw) == power_kw \div 4

\* one slot for a charger spec, whatever its count
ExpandCountOnce(charger, n) ==
    << [ power_kw |-> charger.power_kw,
         remaining |-> 0,
         energy_per_tick |-> energy_per_tick_kwh(charger.power_kw) ] >>

RECURSIVE ExpandCount(_, _)
\* for _ in range(charger.count): append a free slot
ExpandCount(charger, n) ==
    IF n <= 0 THEN << >>
    ELSE << [ power_kw |-> charger.power_kw,
              remaining |-> 0,
              energy_per_tick |-> energy_per_tick_kwh(charger.power_kw) ] >>
         \o ExpandCount(charger, n - 1)

RECURSIVE ExpandChargers(_, _)
\* lines 219-228: the slots, in the order of config.chargers
ExpandChargers(chargers, n) ==
    IF n > Len(chargers) THEN << >>
    ELSE ExpandCount(chargers[n], chargers[n].count)
         \o ExpandChargers(chargers, n + 1)

\* the serve step delivering a full tick's energy whatever remains
ServeSlotFullTick(charger) ==
    LET delivered == charger.energy_per_tick
        left == charger.remaining - delivered
    IN  [ slot |-> [charger EXCEPT !.remaining =
                                      IF left < Eps THEN 0 ELSE left],
          delivered |-> delivered ]

\* lines 273-279 for one slot with remaining > 0
ServeSlot(charger) ==
    LET delivered == Min(charger.energy_per_tick, charger.remaining)
        left == charger.remaining - delivered
    IN  [ slot |-> [charger EXCEPT !.remaining =
                                      IF left < Eps THEN 0 ELSE left],
          delivered |-> delivered ]

RECURSIVE ServeFromEager(_, _)
\* the serve loop listing as free every slot whose remaining energy is 0
\* after it was served
ServeFromEager(st, i) ==
    IF i > Len(st.charger_states) THEN st
    ELSE LET charger == st.charger_states[i]
         IN  IF charger.remaining > 0
             THEN LET served == ServeSlot(charger)
                  IN  ServeFromEager(
                        [st EXCEPT
                           !.charger_states[i] = served.slot,
                           !.total_energy = @ + served.delivered,
                           !.occupied_this_tick = @ + 1,
                           !.free_indices =
                               IF served.slot.remaining = 0
                               THEN Append(@, i) ELSE @], i + 1)
             ELSE ServeFromEager(
                    [st EXCEPT !.free_indices = Append(@, i)], i + 1)

RECURSIVE ServeFrom(_, _)
\* lines 272-281: the serve loop from slot i on (slots are numbered from 1)
ServeFrom(st, i) ==
    IF i > Len(st.charger_states) THEN st
    ELSE LET charger == st.charger_states[i]
         IN  IF charger.remaining > 0
             THEN LET served == ServeSlot(charger)
                  IN  ServeFrom(
                        [st EXCEPT
                           !.charger_states[i] = served.slot,
                           !.total_energy = @ + served.delivered,
                           !.occupied_this_tick = @ + 1], i + 1)
             ELSE ServeFrom(
                    [st EXCEPT !.free_indices = Append(@, i)], i + 1)

\* the update that starts the cell anew
UpsertAnew(stats, period, charger_type, power_kw) ==
    LET inner == IF period \in DOMAIN stats THEN stats[period] ELSE EmptyMap
    IN  (period :> ((charger_type :> [count |-> 1, total_power |-> power_kw])
                    @@ inner)) @@ stats

\* defaultdict access and update of one (period, charger_type) cell:
\* count += 1, total_power += power_kw
Upsert(stats, period, charger_type, power_kw) ==
    LET inner == IF period \in DOMAIN stats THEN stats[period] ELSE EmptyMap
        cell  == IF charger_type \in DOMAIN inner THEN inner[charger_type]
                 ELSE [count |-> 0, total_power |-> 0]
        cell2 == [ count |-> cell.count + 1,
                   total_power |-> cell.total_power + power_kw ]
    IN  (period :> ((charger_type :> cell2) @@ inner)) @@ stats

\* the admission that leaves the first delivery to the next tick's serve
AdmitNoDelivery(st, i, km, energy_per_km, current_time) ==
    LET slot == st.charger_states[i]
        energy_need == km * energy_per_km
        event == [ charger_type |-> slot.power_kw,
                   energy_kwh |-> energy_need,
                   start_time |-> current_time,
                   power_kw |-> slot.power_kw ]
        d == current_time.date
    IN  [st EXCEPT
           !.charger_states[i].remaining = energy_need,
           !.charging_events = Append(@, event),
           !.events_by_day = Upsert(@, d, slot.power_kw, slot.power_kw),
           !.events_by_week =
               Upsert(@, IsoWeek(d), slot.power_kw, slot.power_kw),
           !.events_by_month = Upsert(@, d.month, slot.power_kw, slot.power_kw),
           !.events_by_year = Upsert(@, d.year, slot.power_kw, slot.power_kw),
           !.occupied_this_tick = @ + 1,
           !.emitted = Append(@, i)]

\* lines 289-323: the admission of a session of km > 0 on free slot i
Admit(st, i, km, energy_per_km, current_time) ==
    LET slot == st.charger_states[i]
        energy_need == km * energy_per_km
        delivered == Min(slot.energy_per_tick, energy_need)
        left == energy_need - delivered
        charger_type == slot.power_kw
        power_kw == slot.power_kw
        event == [ charger_type |-> charger_type,
                   energy_kwh |-> energy_need,
                   start_time |-> current_time,
                   power_kw |-> power_kw ]
        d == current_time.date
    IN  [st EXCEPT
           !.charger_states[i].remaining = IF left < Eps THEN 0 ELSE left,
           !.total_energy = @ + delivered,
           !.charging_events = Append(@, event),
           !.events_by_day = Upsert(@, d, charger_type, power_kw),
           !.events_by_week = Upsert(@, IsoWeek(d), charger_type, power_kw),
           !.events_by_month = Upsert(@, d.month, charger_type, power_kw),
           !.events_by_year = Upsert(@, d.year, charger_type, power_kw),
           !.occupied_this_tick = @ + 1,
           !.emitted = Append(@, i)]

\* the arrival test without the continue of a 0 km draw
ArrivalNoSkip(st, i, p_arrival, energy_per_km, current_time) ==
    LET s1 == Lcg(st.rng)
        st1 == [st EXCEPT !.rng = s1,
                          !.tested = Append(@, i),
                          !.draws = Append(@, <<i, "arrival", -1>>)]
    IN  IF DrawOf(s1) < p_arrival
        THEN LET drawn == _sample_km(s1)
                 st2 == [st1 EXCEPT !.rng = drawn.rng,
                                    !.draws =
                                        Append(@, <<i, "demand", drawn.km>>)]
             IN  Admit(st2, i, drawn.km, energy_per_km, current_time)
        ELSE st1

\* lines 285-288 and on: the arrival test of free slot i
Arrival(st, i, p_arrival, energy_per_km, current_time) ==
    LET s1 == Lcg(st.rng)
        st1 == [st EXCEPT !.rng = s1,
                          !.tested = Append(@, i),
                          !.draws = Append(@, <<i, "arrival", -1>>)]
    IN  IF DrawOf(s1) < p_arrival
        THEN LET drawn == _sample_km(s1)
                 st2 == [st1 EXCEPT !.rng = drawn.rng,
                                    !.draws =
                                        Append(@, <<i, "demand", drawn.km>>)]
             IN  IF drawn.km = 0 THEN st2
                 ELSE Admit(st2, i, drawn.km, energy_per_km, current_time)
        ELSE st1

RECURSIVE NewArrivalsDescending(_, _, _, _, _)
\* the arrival loop walking free_indices from its end
NewArrivalsDescending(st, k, p_arrival, energy_per_km, current_time) ==
    IF k > Len(st.free_indices) THEN st
    ELSE NewArrivalsDescending(
           Arrival(st, st.free_indices[Len(st.free_indices) + 1 - k],
                   p_arrival, energy_per_km, current_time),
           k + 1, p_arrival, energy_per_km, current_time)

RECURSIVE NewArrivals(_, _, _, _, _)
\* lines 284-323: for i in free_indices, from position k on
NewArrivals(st, k, p_arrival, energy_per_km, current_time) ==
    IF k > Len(st.free_indices) THEN st
    ELSE NewArrivals(
           Arrival(st, st.free_indices[k], p_arrival, energy_per_km,
                   current_time),
           k + 1, p_arrival, energy_per_km, current_time)

RECURSIVE SumPowerOccupied(_, _, _)
\* lines 325-329: sum() over the slots with remaining > 0, in slot order,
\* acc being the partial sum so far
SumPowerOccupied(cs, i, acc) ==
    IF i > Len(cs) THEN acc
    ELSE SumPowerOccupied(cs, i + 1,
             IF cs[i].remaining > 0 THEN FAdd(acc, cs[i].power_kw)
             ELSE acc)

RECURSIVE SumPowerAll(_, _, _)
SumPowerAll(cs, i, acc) ==
    IF i > Len(cs) THEN acc
    ELSE SumPowerAll(cs, i + 1, FAdd(acc, cs[i].power_kw))

\* the load counting every slot, in session or not
LoadKwAll(cs) == SumPowerAll(cs, 1, 0)

LoadKw(cs) == SumPowerOccupied(cs, 1, 0)

\* the hour of a tick that stays at 23 once the 24 hours are through
HourIdxClamped(t) == Min(t \div TICKS_PER_HOUR, 23)

\* line 259: hour_idx = (tick_in_day // TICKS_PER_HOUR) % 24
HourIdx(t) == (t \div TICKS_PER_HOUR) % 24

\* lines 258-330: one iteration of the tick loop, from the state the
\* previous tick left
TickBody(st0, p_arrival, energy_per_km, current_time) ==
    LET served == ServeFrom(st0, 1)
        admitted == NewArrivals(served, 1, p_arrival, energy_per_km,
                                current_time)
    IN  [ st |-> admitted,
          after_serve |-> served.charger_states,
          energy_after_serve |-> served.total_energy,
          load_kw |-> LoadKw(admitted.charger_states) ]

\* --------------------------------------------------------------- the result

Pad2(n) == IF n < 10 THEN "0" \o ToString(n) ELSE ToString(n)

\* str(period) of a datetime.date: YYYY-MM-DD
StrDate(period) ==
    ToString(period.year) \o "-" \o Pad2(period.month)
    \o "-" \o Pad2(period.day)

\* str(period) of an int: its digits
StrInt(period) == ToString(period)

RECURSIVE SumField(_, _, _)
\* sum(stats[field] for stats in charger_stats.values())
SumField(charger_stats, keys, field) ==
    IF keys = {} THEN 0
    ELSE LET k == CHOOSE x \in keys : TRUE
         IN  charger_stats[k][field]
             + SumField(charger_stats, keys \ {k}, field)

\* calculate_statistics (lines 339-348), period_type being the Python type
\* of the period keys, which decides what str(period) is;
\* round(total_power, 2) leaves the whole-numbered powers of the model as
\* they are
calculate_statistics(events_dict, period_type) ==
    LET str(period) == IF period_type = "date" THEN StrDate(period)
                       ELSE StrInt(period)
        keys == { str(period) : period \in DOMAIN events_dict }
        PeriodOf(key) ==
            CHOOSE period \in DOMAIN events_dict : str(period) = key
    IN  [ key \in keys |->
            LET charger_stats == events_dict[PeriodOf(key)]
            IN  [ total_events |->
                    SumField(charger_stats, DOMAIN charger_stats, "count"),
                  total_power_kw |->
                    SumField(charger_stats, DOMAIN charger_stats,
                             "total_power") ] ]

RECURSIVE TheoreticalFrom(_, _, _)
\* lines 332-334: sum(charger.power_kw * charger.count), acc being the
\* partial sum so far
TheoreticalFrom(chargers, n, acc) ==
    IF n > Len(chargers) THEN acc
    ELSE TheoreticalFrom(chargers, n + 1,
             FAdd(acc, FMul(chargers[n].power_kw, chargers[n].count)))

TheoreticalMaxKw(chargers) == TheoreticalFrom(chargers, 1, 0)

\* the factor with a fleet of no capacity counted as fully used
ConcurrencyFactorFull(actual, theoretical) ==
    IF theoretical # 0 THEN RoundHalfEven(actual * CfScale, theoretical)
    ELSE CfScale

\* lines 335-337 and 361: round(actual / theoretical, 3), in CfScale-ths
ConcurrencyFactor(actual, theoretical) ==
    IF theoretical # 0 THEN RoundHalfEven(actual * CfScale, theoretical)
    ELSE 0

\* ------------------------------------------------------------- the service

\* str(event.charger_type) of a float with a whole value: "8.0"
StrFloat(x) == ToString(x) \o ".0"

\* SimulationService.run_simulation, lines 487-497: the rollup by charger
\* type of the returned event list (the events of one type have one power,
\* so the average is a whole number)
charger_type_stats(events) ==
    LET keys == { StrFloat(events[n].charger_type) : n \in 1..Len(events) }
    IN  [ key \in keys |->
            LET of_type == SelectSeq(events,
                             LAMBDA e : StrFloat(e.charger_type) = key)
                total == SumField(of_type, 1..Len(of_type), "power_kw")
            IN  [ count |-> Len(of_type),
                  total_power_kw |-> total,
                  avg_power_kw |-> IF Len(of_type) > 0
                                   THEN total \div Len(of_type) ELSE 0 ] ]

\* float(charger_type) of a key of the rollup: the rating it was made from
FloatOfKey(key, events) ==
    CHOOSE x \in { events[n].charger_type : n \in 1..Len(events) } :
        StrFloat(x) = key

\* ------------------------------------------------------------ the database

\* the tables of app/core/models.py, each a set of rows, and the next
\* primary key of each
EmptyDb ==
    [ simulation_configs |-> {}, charger_configs |-> {},
      simulation_results |-> {}, charging_events |-> {},
      event_period_statistics |-> {}, event_charger_statistics |-> {},
      next_id |-> [ simulation_configs |-> 1, charger_configs |-> 1,
                    simulation_results |-> 1, charging_events |-> 1,
                    event_period_statistics |-> 1,
                    event_charger_statistics |-> 1 ] ]

RECURSIVE SeqOfSet(_)
\* the elements of a finite set, one after the other
SeqOfSet(S) ==
    IF S = {} THEN << >>
    ELSE LET x == CHOOSE y \in S : TRUE
         IN  << x >> \o SeqOfSet(S \ {x})

RECURSIVE RowsById(_)
\* rows in the order of their primary keys
RowsById(rows) ==
    IF rows = {} THEN << >>
    ELSE LET first == CHOOSE r \in rows : \A q \in rows : r.id <= q.id
         IN  << first >> \o RowsById(rows \ {first})

\* session.add of the rows made from a list, keyed from next_id on, with
\* the foreign key fk set to parent
InsertAll(d, table, fk, parent, list) ==
    LET first == d.next_id[table]
    IN  [d EXCEPT
           ![table] = @ \cup { [id |-> first + n - 1] @@ (fk :> parent)
                                 @@ list[n] : n \in 1..Len(list) },
           !.next_id[table] = first + Len(list)]

\* the cascade that stops at the rows naming the configuration
OnDeleteOneLevel(d) ==
    LET config_ids == { c.id : c \in d.simulation_configs }
    IN  [d EXCEPT
           !.charger_configs = { c \in @ : c.config_id \in config_ids },
           !.simulation_results = { r \in @ : r.config_id \in config_ids }]

\* ForeignKey(..., ondelete="CASCADE") of models.py: a row goes with the
\* row its foreign key names
OnDeleteCascade(d) ==
    LET config_ids == { c.id : c \in d.simulation_configs }
        results == { r \in d.simulation_results : r.config_id \in config_ids }
        result_ids == { r.id : r \in results }
    IN  [d EXCEPT
           !.charger_configs = { c \in @ : c.config_id \in config_ids },
           !.simulation_results = results,
           !.charging_events = { e \in @ : e.result_id \in result_ids },
           !.event_period_statistics =
               { e \in @ : e.result_id \in result_ids },
           !.event_charger_statistics =
               { e \in @ : e.result_id \in result_ids }]

\* SimulationService.create_config, lines 47-74
create_config(d, payload) ==
    LET id == d.next_id.simulation_configs
        db_config == [ id |-> id,
                       arrival_multiplier |-> payload.arrival_multiplier,
                       energy_per_km |-> payload.energy_per_km,
                       year |-> payload.year,
                       seed |-> payload.seed ]
        flushed == [d EXCEPT !.simulation_configs = @ \cup {db_config},
                             !.next_id.simulation_configs = id + 1]
    IN  InsertAll(flushed, "charger_configs", "config_id", id,
                  payload.chargers)

\* SimulationService.get_config, lines 105-142: the stored configuration
\* with its chargers, or None
get_config(d, config_id) ==
    LET found == { c \in d.simulation_configs : c.id = config_id }
    IN  IF found = {} THEN None
        ELSE LET db_config == CHOOSE c \in found : TRUE
             IN  Some([ id |-> db_config.id,
                        arrival_multiplier |-> db_config.arrival_multiplier,
                        energy_per_km |-> db_config.energy_per_km,
                        year |-> db_config.year,
                        seed |-> db_config.seed,
                        chargers |->
                            RowsById({ c \in d.charger_configs :
                                         c.config_id = config_id }) ])

\* SimulationService.run_simulation, lines 473-483: the engine's config
\* made from the stored one
SimConfigOf(stored) ==
    [ chargers |-> [ n \in 1..Len(stored.chargers) |->
                       [ power_kw |-> stored.chargers[n].power_kw,
                         count |-> stored.chargers[n].count ] ],
      arrival_multiplier |-> stored.arrival_multiplier,
      energy_per_km |-> stored.energy_per_km \div 100,
      seed |-> stored.seed,
      year |-> stored.year ]

\* SimulationService.run_simulation, lines 499-533: the
\* SimulationResultCreate made from the engine's result
ResultCreateOf(sim_result) ==
    LET stats == sim_result.events_statistics
        rowsOf(period_type) ==
            LET periods == stats[period_type]
                keys == SeqOfSet(DOMAIN periods)
            IN  [ n \in 1..Len(keys) |->
                    [ period_type |-> period_type,
                      period_value |-> keys[n],
                      total_events |-> periods[keys[n]].total_events,
                      total_power_kw |-> periods[keys[n]].total_power_kw ] ]
        rollup == charger_type_stats(sim_result.charging_events)
        types == SeqOfSet(DOMAIN rollup)
    IN  [ total_energy_kwh |-> sim_result.total_energy_kwh,
          theoretical_max_kw |-> sim_result.theoretical_max_kw,
          actual_max_kw |-> sim_result.actual_max_kw,
          concurrency_factor |-> sim_result.concurrency_factor,
          total_charging_events |-> sim_result.total_charging_events,
          charging_events |-> sim_result.charging_events,
          event_period_statistics |->
              rowsOf("by_day") \o rowsOf("by_week") \o rowsOf("by_month")
              \o rowsOf("by_year"),
          event_charger_statistics |->
              [ n \in 1..Len(types) |->
                  [ charger_type |->
                        FloatOfKey(types[n], sim_result.charging_events),
                    total_events |-> rollup[types[n]].count,
                    total_power_kw |-> rollup[types[n]].total_power_kw,
                    avg_power_kw |-> rollup[types[n]].avg_power_kw ] ] ]

\* SimulationService.create_result, lines 176-229
create_result(d, config_id, result_data) ==
    LET id == d.next_id.simulation_results
        db_result ==
            [ id |-> id, config_id |-> config_id,
              total_energy_kwh |-> result_data.total_energy_kwh,
              theoretical_max_kw |-> result_data.theoretical_max_kw,
              actual_max_kw |-> result_data.actual_max_kw,
              concurrency_factor |-> result_data.concurrency_factor,
              total_charging_events |-> result_data.total_charging_events ]
        flushed == [d EXCEPT !.simulation_results = @ \cup {db_result},
                             !.next_id.simulation_results = id + 1]
        events == InsertAll(flushed, "charging_events", "result_id", id,
                            result_data.charging_events)
        periods == InsertAll(events, "event_period_statistics", "result_id",
                             id, result_data.event_period_statistics)
    IN  InsertAll(periods, "event_charger_statistics", "result_id", id,
                  result_data.event_charger_statistics)

\* SimulationService.delete_config, lines 558-567: the two delete
\* statements with what the foreign keys take along, and the row count of
\* the second
delete_config(d, config_id) ==
    LET gone == { c \in d.simulation_configs : c.id = config_id }
        deleted ==
            [d EXCEPT
               !.charger_configs = { c \in @ : c.config_id # config_id },
               !.simulation_configs = @ \ gone]
    IN  [ db |-> OnDeleteCascade(deleted), rowcount |-> Cardinality(gone) ]

\* ------------------------------------------------------------------ actions

\* the validation without its test of the counts
InvalidOnlyEmpty(cfg) == cfg.chargers = << >>

\* line 202
Invalid(cfg) ==
    \/ cfg.chargers = << >>
    \/ \E n \in 1..Len(cfg.chargers) : cfg.chargers[n].count < 1

\* run_simulation without its call of random.seed: the generator stays
\* as the call found it
SeedStatesSkipped(seed) == {rng}

\* random.seed(config.seed), line 205: the states it may leave
SeedStates(seed) ==
    IF seed = None THEN EntropyStates ELSE {SeedState(seed[1])}

\* the locals of a call that has created none
NoRunState ==
    /\ p_tick' = << >>
    /\ spring_forward' = NoDate
    /\ fall_back' = NoDate
    /\ charger_states' = << >>
    /\ total_energy' = 0
    /\ actual_max_kw' = 0
    /\ charging_events' = << >>
    /\ events_by_day' = EmptyMap
    /\ events_by_week' = EmptyMap
    /\ events_by_month' = EmptyMap
    /\ events_by_year' = EmptyMap
    /\ day' = 0
    /\ date' = NoDate
    /\ ticks_today' = 0
    /\ tick_in_day' = 0
    /\ last' = NoTick
    /\ ticks_run' = 0

\* run_simulation, lines 202-248: validation, seeding, p_tick, the DST
\* days, the slots and the accumulators
Invoke ==
    /\ pc = "idle"
    /\ calls' = calls + 1
    /\ UNCHANGED << config, result, seen, sample >>
    /\ UNCHANGED outside
    /\ IF Invalid(config)
       THEN /\ pc' = "raised"
            /\ error' = Some("ValueError")
            /\ rng' = rng
            /\ NoRunState
       ELSE /\ rng' \in SeedStates(config.seed)
            /\ IF \E h \in 1..24 :
                    PTickFaults(_ARRIVAL_PCT_PER_HOUR[h],
                                config.arrival_multiplier)
               THEN /\ pc' = "raised"
                    /\ error' = Some("TypeError")
                    /\ NoRunState
               ELSE /\ pc' = "loop"
                    /\ error' = None
                    /\ p_tick' = [ h \in 1..24 |->
                                     PTickOf(_ARRIVAL_PCT_PER_HOUR[h],
                                             config.arrival_multiplier) ]
                    /\ spring_forward' = _last_sunday(config.year, 3)
                    /\ fall_back' = _last_sunday(config.year, 10)
                    /\ charger_states' = ExpandChargers(config.chargers, 1)
                    /\ total_energy' = 0
                    /\ actual_max_kw' = 0
                    /\ charging_events' = << >>
                    /\ events_by_day' = EmptyMap
                    /\ events_by_week' = EmptyMap
                    /\ events_by_month' = EmptyMap
                    /\ events_by_year' = EmptyMap
                    /\ day' = 0
                    /\ date' = NoDate
                    /\ ticks_today' = 0
                    /\ tick_in_day' = 0
                    /\ last' = NoTick
                    /\ ticks_run' = 0

\* lines 249-256: the head of the day loop
BeginDay ==
    /\ pc = "loop"
    /\ day < DAYS_SIMULATED
    /\ date' = AddDays(config.year, day)
    /\ ticks_today' = TicksOfDay(date', spring_forward, fall_back)
    /\ tick_in_day' = 0
    /\ pc' = "tick"
    /\ UNCHANGED << rng, error, calls, config, p_tick, spring_forward,
                    fall_back, charger_states, total_energy, actual_max_kw,
                    charging_events, events_by_day, events_by_week,
                    events_by_month, events_by_year, day, last, ticks_run,
                    result, seen, sample >>
    /\ UNCHANGED outside

\* lines 258-330: one tick; after the last tick of the day the day loop
\* goes on
Tick ==
    /\ pc = "tick"
    /\ tick_in_day < ticks_today
    /\ LET hour_idx == HourIdx(tick_in_day)
           p_arrival == p_tick[hour_idx + 1]
           minute == (tick_in_day % TICKS_PER_HOUR) * 15
           current_time == [date |-> date, hour |-> hour_idx,
                            minute |-> minute]
           st0 == [ rng |-> rng,
                    charger_states |-> charger_states,
                    total_energy |-> total_energy,
                    charging_events |-> charging_events,
                    events_by_day |-> events_by_day,
                    events_by_week |-> events_by_week,
                    events_by_month |-> events_by_month,
                    events_by_year |-> events_by_year,
                    occupied_this_tick |-> 0,
                    free_indices |-> << >>,
                    tested |-> << >>,
                    draws |-> << >>,
                    emitted |-> << >> ]
       IN  \E out \in { TickBody(st0, p_arrival, config.energy_per_km,
                                  current_time) } :
           /\ rng' = out.st.rng
           /\ charger_states' = out.st.charger_states
           /\ total_energy' = out.st.total_energy
           /\ charging_events' = out.st.charging_events
           /\ events_by_day' = out.st.events_by_day
           /\ events_by_week' = out.st.events_by_week
           /\ events_by_month' = out.st.events_by_month
           /\ events_by_year' = out.st.events_by_year
           /\ actual_max_kw' = Max(actual_max_kw, out.load_kw)
           /\ last' = [ day |-> day, tick_in_day |-> tick_in_day,
                        hour_idx |-> hour_idx, minute |-> minute,
                        p_arrival |-> p_arrival,
                        before |-> charger_states,
                        free_indices |-> out.st.free_indices,
                        tested |-> out.st.tested,
                        draws |-> out.st.draws,
                        emitted |-> out.st.emitted,
                        after_serve |-> out.after_serve,
                        load_kw |-> out.load_kw,
                        events_before |-> Len(charging_events),
                        energy_before |-> total_energy,
                        energy_after_serve |-> out.energy_after_serve ]
    /\ ticks_run' = ticks_run + 1
    /\ tick_in_day' = tick_in_day + 1
    /\ IF tick_in_day + 1 < ticks_today
       THEN pc' = "tick" /\ day' = day
       ELSE pc' = "loop" /\ day' = day + 1
    /\ UNCHANGED << error, calls, config, p_tick, spring_forward, fall_back,
                    date, ticks_today, result, seen, sample >>
    /\ UNCHANGED outside

\* lines 332-365: the KPIs, the statistics and the returned value
Return ==
    /\ pc = "loop"
    /\ day >= DAYS_SIMULATED
    /\ LET theoretical_max_kw == TheoreticalMaxKw(config.chargers)
       IN  result' = Some(
             [ total_energy_kwh |-> Round2(total_energy),
               theoretical_max_kw |-> theoretical_max_kw,
               actual_max_kw |-> actual_max_kw,
               concurrency_factor |->
                   ConcurrencyFactor(actual_max_kw, theoretical_max_kw),
               total_charging_events |-> Len(charging_events),
               charging_events |-> charging_events,
               events_statistics |->
                 [ by_day |-> calculate_statistics(events_by_day, "date"),
                   by_week |-> calculate_statistics(events_by_week, "int"),
                   by_month |-> calculate_statistics(events_by_month, "int"),
                   by_year |-> calculate_statistics(events_by_year, "int") ] ])
    /\ seen' = Append(seen, <<config, result'[1]>>)
    /\ pc' = "done"
    /\ UNCHANGED << rng, error, calls, config, p_tick, spring_forward,
                    fall_back, charger_states, total_energy, actual_max_kw,
                    charging_events, events_by_day, events_by_week,
                    events_by_month, events_by_year, day, date, ticks_today,
                    tick_in_day, last, ticks_run, sample >>
    /\ UNCHANGED outside

\* -------------------------------------------------------------- the callers

Charger(power_kw, count) == [power_kw |-> power_kw, count |-> count]

SimulationConfig(chargers, arrival_multiplier, energy_per_km, seed, year) ==
    [ chargers |-> chargers, arrival_multiplier |-> arrival_multiplier,
      energy_per_km |-> energy_per_km, seed |-> seed, year |-> year ]

\* the configurations the first call is made with
Configs ==
    { SimulationConfig(<< >>, 1, 1, Some(1), 2023),
      SimulationConfig(<< Charger(8, 0) >>, 1, 1, Some(1), 2023),
      SimulationConfig(<< Charger(8, 1), Charger(40, 0) >>, 1, 1, None, 2023),
      SimulationConfig(<< Charger(8, 1) >>, 100, 1, None, 2023),
      SimulationConfig(<< Charger(8, 1) >>, 1, 1, Some(1), 2023),
      SimulationConfig(<< Charger(8, 2) >>, 0, 1, Some(2), 2024),
      SimulationConfig(<< Charger(8, 1), Charger(40, 1) >>, 1, 1, Some(3), 2024),
      SimulationConfig(<< Charger(40, 2) >>, 1, 3, Some(4), 2023) }

Reverse(seq) == [ n \in 1..Len(seq) |-> seq[Len(seq) + 1 - n] ]

\* what the caller may ask next: the same configuration again, or the same
\* with the charger list in the other order
FollowUps(cfg) ==
    { cfg, [cfg EXCEPT !.chargers = Reverse(cfg.chargers)] }

\* the ambient generator as the process found it
AmbientStates == {0, 12345}

\* no other run in the process
NoOther == [pc |-> "off", steps |-> 0]

\* no request handler in the process
NoService == [pc |-> "off", config_id |-> 0, reply |-> None]

\* the locals of a call before it is made
FreshLocals ==
    /\ error = None
    /\ calls = 0
    /\ p_tick = << >>
    /\ spring_forward = NoDate
    /\ fall_back = NoDate
    /\ charger_states = << >>
    /\ total_energy = 0
    /\ actual_max_kw = 0
    /\ charging_events = << >>
    /\ events_by_day = EmptyMap
    /\ events_by_week = EmptyMap
    /\ events_by_month = EmptyMap
    /\ events_by_year = EmptyMap
    /\ day = 0
    /\ date = NoDate
    /\ ticks_today = 0
    /\ tick_in_day = 0
    /\ last = NoTick
    /\ ticks_run = 0
    /\ result = None
    /\ seen = << >>
    /\ sample = None

\* no call made yet, by a caller that holds the engine alone
Fresh ==
    /\ pc = "idle"
    /\ FreshLocals
    /\ other = NoOther
    /\ db = EmptyDb
    /\ svc = NoService
    /\ handlers = << >>

Init ==
    /\ rng \in AmbientStates
    /\ config \in Configs
    /\ Fresh

\* the caller calls run_simulation once more; the locals of the call
\* before are gone, the ambient generator is as that call left it
Again ==
    /\ pc \in {"done", "raised"}
    /\ calls < MaxCalls
    /\ config' \in FollowUps(config)
    /\ pc' = "idle"
    /\ error' = None
    /\ result' = None
    /\ NoRunState
    /\ UNCHANGED << rng, calls, seen, sample >>
    /\ UNCHANGED outside

Next == Invoke \/ BeginDay \/ Tick \/ Return \/ Again

Spec == Init /\ [][Next]_vars

\* ------------------------------------------------- one call, year by year

FirstYear == 2023
LastYear == 2030

\* one call for each year of a range that holds every weekday of 1 January
\* and leap years; the fleet is one slot and no arrival is drawn
InitCalendar ==
    /\ rng \in {0}
    /\ config \in { SimulationConfig(<< Charger(8, 1) >>, 0, 1, Some(1), y) :
                      y \in FirstYear..LastYear }
    /\ Fresh

NextOneCall == Invoke \/ BeginDay \/ Tick \/ Return

SpecCalendar == InitCalendar /\ [][NextOneCall]_vars

\* ------------------------------------------- one call, a fleet in full use

\* one call on a fleet of six slots of one rating that fills the
\* significand, with arrivals frequent (multiplier 9.0) and sessions long
\* enough for all six slots to be in session at once
InitDense ==
    /\ rng \in {0}
    /\ config \in { SimulationConfig(<< Charger(p, 6) >>, 90, 4000, Some(s),
                                     2023) :
                      p \in {212, 220}, s \in {1, 2} }
    /\ Fresh

SpecDense == InitDense /\ [][NextOneCall]_vars

\* ------------------------------------------ one call, a fleet of no capacity

\* one call on a fleet that passes validation and whose ratings are all 0
InitZeroPower ==
    /\ rng \in {0}
    /\ config \in { SimulationConfig(chargers, 50, 1, Some(1), 2023) :
                      chargers \in { << Charger(0, 1) >>,
                                     << Charger(0, 2) >>,
                                     << Charger(0, 1), Charger(0, 1) >> } }
    /\ Fresh

SpecZeroPower == InitZeroPower /\ [][NextOneCall]_vars

\* ------------------------------------- one call, a session started at night

\* one call on two slots over the year 2023, from a seed with which a car
\* arrives in the last four ticks of the day the clocks go back
InitLate ==
    /\ rng \in {0}
    /\ config \in { SimulationConfig(<< Charger(40, 2) >>, 10, 1, Some(s),
                                     2023) : s \in {72} }
    /\ Fresh

SpecLate == InitLate /\ [][NextOneCall]_vars

\* --------------------------------------------------- the demand sampler alone

\* _sample_km() called on the ambient generator in any state
InitSample ==
    /\ rng \in 0..(LcgMod - 1)
    /\ config = SimulationConfig(<< >>, 0, 0, None, 0)
    /\ Fresh

SampleCall ==
    /\ sample = None
    /\ \E drawn \in { _sample_km(rng) } :
         /\ rng' = drawn.rng
         /\ sample' = Some([draw |-> DrawOf(drawn.rng), km |-> drawn.km])
    /\ UNCHANGED << pc, error, calls, config, p_tick, spring_forward,
                    fall_back, charger_states, total_energy, actual_max_kw,
                    charging_events, events_by_day, events_by_week,
                    events_by_month, events_by_year, day, date, ticks_today,
                    tick_in_day, last, ticks_run, result, seen >>
    /\ UNCHANGED outside

SpecSample == InitSample /\ [][SampleCall]_vars

\* ------------------------------------------- two runs in one process

MaxOtherSteps == 2
OtherWindow == 2
OtherSeed == 7

\* a first call alone and then the same call again, with a configuration
\* that carries its seed
InitParallel ==
    /\ rng \in {0}
    /\ config \in { SimulationConfig(<< Charger(40, 1) >>, 1, 1, Some(1),
                                     2023) }
    /\ Fresh

\* the other run is in the ticks of the second call, up to OtherWindow
\* ticks into it
OtherMayStep ==
    /\ calls > 1
    /\ pc \in {"loop", "tick"}
    /\ ticks_run < OtherWindow
    /\ other.steps < MaxOtherSteps

EngineFrame ==
    << pc, error, calls, config, p_tick, spring_forward, fall_back,
       charger_states, total_energy, actual_max_kw, charging_events,
       events_by_day, events_by_week, events_by_month, events_by_year, day,
       date, ticks_today, tick_in_day, last, ticks_run, result, seen,
       sample, db, svc, handlers >>

\* line 205 in the other run: random.seed(config.seed) on the one generator
\* of the random module
OtherSeeds ==
    /\ OtherMayStep
    /\ other.pc = "off"
    /\ rng' = SeedState(OtherSeed)
    /\ other' = [pc |-> "on", steps |-> other.steps + 1]
    /\ UNCHANGED EngineFrame

\* lines 162 and 275 in the other run: random.random() on the same generator
OtherDraws ==
    /\ OtherMayStep
    /\ other.pc = "on"
    /\ rng' = Lcg(rng)
    /\ other' = [other EXCEPT !.steps = @ + 1]
    /\ UNCHANGED EngineFrame

NextParallel ==
    Invoke \/ BeginDay \/ Tick \/ Return \/ Again \/ OtherSeeds \/ OtherDraws

SpecParallel == InitParallel /\ [][NextParallel]_vars

\* ------------------------------------------------- the service on its store

MaxConfigId == 1
MaxRuns == 1

\* the bodies of POST /configs: SimulationConfigCreate puts no condition on
\* the charger list or on a count
Payloads ==
    { [ chargers |-> << Charger(40, 1) >>, arrival_multiplier |-> 1,
        energy_per_km |-> 100, year |-> 2023, seed |-> Some(1) ],
      [ chargers |-> << Charger(8, 0) >>, arrival_multiplier |-> 1,
        energy_per_km |-> 100, year |-> 2023, seed |-> Some(1) ],
      [ chargers |-> << >>, arrival_multiplier |-> 1,
        energy_per_km |-> 100, year |-> 2023, seed |-> Some(1) ] }

\* the engine's frame while no handler is in it
NoConfig == SimulationConfig(<< >>, 0, 0, None, 0)

\* what a handler answered: the operation, the configuration it was asked
\* about, the HTTP status and the exception behind it
Reply(op, config_id, status, detail) ==
    Some([ op |-> op, config_id |-> config_id, status |-> status,
           detail |-> detail ])

EngineUntouchedByLoop ==
    UNCHANGED << rng, pc, error, calls, config, p_tick, spring_forward,
                 fall_back, charger_states, total_energy, actual_max_kw,
                 charging_events, events_by_day, events_by_week,
                 events_by_month, events_by_year, day, date, ticks_today,
                 tick_in_day, last, ticks_run, result, seen, sample >>

\* the application up, its store empty
InitService ==
    /\ rng \in {0}
    /\ config = NoConfig
    /\ pc = "none"
    /\ FreshLocals
    /\ other = NoOther
    /\ db = EmptyDb
    /\ svc = [pc |-> "ready", config_id |-> 0, reply |-> None]
    /\ handlers = << >>

EngineUntouched ==
    UNCHANGED << rng, pc, error, calls, config, p_tick, spring_forward,
                 fall_back, charger_states, total_energy, actual_max_kw,
                 charging_events, events_by_day, events_by_week,
                 events_by_month, events_by_year, day, date, ticks_today,
                 tick_in_day, last, ticks_run, result, seen, sample, other,
                 handlers >>

\* the frame of the engine's call is gone
LeaveEngine ==
    /\ pc' = "none"
    /\ config' = NoConfig
    /\ error' = None
    /\ result' = None
    /\ NoRunState
    /\ UNCHANGED << rng, calls, seen, sample, other, handlers >>

\* POST /configs: create_config and the commit of get_db
SvcCreate ==
    /\ svc.pc = "ready"
    /\ db.next_id.simulation_configs <= MaxConfigId
    /\ \E payload \in Payloads :
         /\ db' = create_config(db, payload)
         /\ svc' = [svc EXCEPT !.reply =
                        Reply("create", db.next_id.simulation_configs, 200,
                              "")]
    /\ EngineUntouched

\* POST /configs/{config_id}/run up to the engine's call, service lines
\* 468-485: no stored configuration raises ValueError, which the router
\* answers with 404 and get_db with a rollback
SvcRun ==
    /\ svc.pc = "ready"
    /\ calls < MaxRuns
    /\ \E config_id \in 1..MaxConfigId :
         LET stored == get_config(db, config_id)
         IN  IF stored = None
             THEN /\ svc' = [svc EXCEPT !.reply =
                                 Reply("run", config_id, 404, "ValueError")]
                  /\ db' = db
                  /\ EngineUntouched
             ELSE /\ svc' = [pc |-> "running", config_id |-> config_id,
                             reply |-> None]
                  /\ db' = db
                  /\ config' = SimConfigOf(stored[1])
                  /\ pc' = "idle"
                  /\ error' = None
                  /\ result' = None
                  /\ NoRunState
                  /\ UNCHANGED << rng, calls, seen, sample, other, handlers >>

\* the engine raised: router lines 95-99 and the rollback of get_db
SvcRaise ==
    /\ svc.pc = "running"
    /\ pc = "raised"
    /\ svc' = [pc |-> "ready", config_id |-> 0,
               reply |-> Reply("run", svc.config_id,
                               IF error = Some("ValueError") THEN 404
                               ELSE 500, error[1])]
    /\ db' = db
    /\ LeaveEngine

\* the engine returned, service lines 487-546: the roll-up and
\* create_result, whose first flush fails on the foreign key when the
\* configuration is gone
SvcPersist ==
    /\ svc.pc = "running"
    /\ pc = "done"
    /\ IF \E c \in db.simulation_configs : c.id = svc.config_id
       THEN /\ db' = create_result(db, svc.config_id,
                                   ResultCreateOf(result[1]))
            /\ svc' = [pc |-> "ready", config_id |-> 0,
                       reply |-> Reply("run", svc.config_id, 200, "")]
       ELSE /\ db' = db
            /\ svc' = [pc |-> "ready", config_id |-> 0,
                       reply |-> Reply("run", svc.config_id, 500,
                                       "IntegrityError")]
    /\ LeaveEngine

\* DELETE /configs/{config_id}, router lines 179-197: it runs between two
\* handlers, or while the handler of a run waits for its first query (of
\* these only the delete of the running configuration is taken: the delete
\* of another one commutes with the run)
SvcDelete ==
    /\ \E config_id \in 1..MaxConfigId :
         LET deleted == delete_config(db, config_id)
         IN  /\ \/ svc.pc = "ready"
                \/ /\ svc.pc = "running"
                   /\ pc = "idle"
                   /\ config_id = svc.config_id
             /\ IF deleted.rowcount = 0
                THEN /\ db' = db
                     /\ svc' = [svc EXCEPT !.reply =
                                    Reply("delete", config_id, 404,
                                          "ValueError")]
                ELSE /\ db' = deleted.db
                     /\ svc' = [svc EXCEPT !.reply =
                                    Reply("delete", config_id, 204, "")]
    /\ EngineUntouched

NextService ==
    \/ SvcCreate \/ SvcRun \/ SvcDelete \/ SvcRaise \/ SvcPersist
    \/ (svc.pc = "running" /\ Invoke)
    \/ (svc.pc = "running" /\ BeginDay)
    \/ (svc.pc = "running" /\ Tick)
    \/ (svc.pc = "running" /\ Return)

SpecService == InitService /\ [][NextService]_vars

\* ------------------------------------- two run requests on one event loop

\* the configuration both requests name
LoopPayload ==
    [ chargers |-> << Charger(40, 1) >>, arrival_multiplier |-> 1,
      energy_per_km |-> 100, year |-> 2023, seed |-> Some(1) ]

\* a coroutine of SimulationService.run_simulation not yet started
NewHandler == [pc |-> "new", config |-> None, result |-> None]

\* two POST /configs/1/run accepted by the event loop, the configuration
\* stored
InitLoop ==
    /\ rng \in {0}
    /\ config = NoConfig
    /\ pc = "none"
    /\ FreshLocals
    /\ other = NoOther
    /\ db = create_config(EmptyDb, LoopPayload)
    /\ svc = NoService
    /\ handlers = << NewHandler, NewHandler >>

\* the event loop taking a coroutine up whatever the thread is in
InEngineNever == FALSE

\* the thread of the event loop is in the engine: run_simulation of core.py
\* holds no await and no yield, lines 187-365
InEngine == pc # "none"

\* service line 468: await self.get_config(config_id) has returned
HandlerLoads(h) ==
    /\ ~InEngine
    /\ handlers[h].pc = "new"
    /\ handlers' = [handlers EXCEPT ![h] =
                       [@ EXCEPT !.pc = "loaded",
                                 !.config = get_config(db, 1)]]
    /\ UNCHANGED << db, svc, other >>
    /\ EngineUntouchedByLoop

\* service lines 473-485: the call of the engine
HandlerCalls(h) ==
    /\ ~InEngine
    /\ handlers[h].pc = "loaded"
    /\ handlers' = [handlers EXCEPT ![h].pc = "engine"]
    /\ config' = SimConfigOf(handlers[h].config[1])
    /\ pc' = "idle"
    /\ error' = None
    /\ result' = None
    /\ NoRunState
    /\ UNCHANGED << rng, calls, seen, sample, other, db, svc >>

\* service line 485: the engine has returned to the coroutine that called
HandlerResumes(h) ==
    /\ pc = "done"
    /\ handlers[h].pc = "engine"
    /\ handlers' = [handlers EXCEPT ![h] =
                       [@ EXCEPT !.pc = "returned", !.result = result]]
    /\ pc' = "none"
    /\ config' = NoConfig
    /\ error' = None
    /\ result' = None
    /\ NoRunState
    /\ UNCHANGED << rng, calls, seen, sample, other, db, svc >>

\* service lines 487-546: the roll-up and create_result
HandlerPersists(h) ==
    /\ ~InEngine
    /\ handlers[h].pc = "returned"
    /\ db' = create_result(db, 1, ResultCreateOf(handlers[h].result[1]))
    /\ handlers' = [handlers EXCEPT ![h] =
                       [@ EXCEPT !.pc = "finished", !.result = None]]
    /\ UNCHANGED << svc, other >>
    /\ EngineUntouchedByLoop

NextLoop ==
    \/ \E h \in 1..2 : HandlerLoads(h)
    \/ \E h \in 1..2 : HandlerCalls(h)
    \/ \E h \in 1..2 : HandlerResumes(h)
    \/ \E h \in 1..2 : HandlerPersists(h)
    \/ Invoke \/ BeginDay \/ Tick \/ Return

SpecLoop == InitLoop /\ [][NextLoop]_vars

\* ------------------------------------------------------------------ claims

Running == pc \in {"loop", "tick"}

\* C1: a call with an empty charger list or a charger of count < 1 raises
\* ValueError, and only such a call does; the raising call leaves the
\* ambient generator as it found it, creates no slot, event or statistics
\* state, and returns no result.
C1_ValidationFirst ==
    [][ pc = "idle" =>
          IF \/ Len(config.chargers) = 0
             \/ \E c \in { config.chargers[n] : n \in DOMAIN config.chargers } :
                  c.count < 1
          THEN /\ pc' = "raised"
               /\ error' = Some("ValueError")
               /\ rng' = rng
               /\ charger_states' = << >>
               /\ charging_events' = << >>
               /\ p_tick' = << >>
               /\ events_by_day' = EmptyMap
               /\ events_by_week' = EmptyMap
               /\ events_by_month' = EmptyMap
               /\ events_by_year' = EmptyMap
               /\ result' = None
               /\ seen' = seen
          ELSE error' # Some("ValueError") ]_vars

C1_Witness ==
    /\ pc = "raised"
    /\ error = Some("ValueError")
    /\ config.chargers # << >>
    /\ rng \in AmbientStates

\* C2: two calls of run_simulation with equal configurations that supply a
\* seed return equal total_energy_kwh, actual_max_kw, charging_events (order
\* and field values) and events_statistics.
C2_Determinism ==
    \A i, j \in 1..Len(seen) :
        (i < j /\ seen[i][1] = seen[j][1] /\ seen[i][1].seed # None)
        => /\ seen[i][2].total_energy_kwh = seen[j][2].total_energy_kwh
           /\ seen[i][2].actual_max_kw = seen[j][2].actual_max_kw
           /\ seen[i][2].charging_events = seen[j][2].charging_events
           /\ seen[i][2].events_statistics = seen[j][2].events_statistics

C2_Witness ==
    \E i, j \in 1..Len(seen) :
        /\ i < j
        /\ seen[i][1] = seen[j][1]
        /\ seen[i][1].seed # None
        /\ seen[j][2].total_charging_events > 1
        /\ seen[j][2].total_energy_kwh > 0

\* the index of date d in the simulated year: 0 is 1 January
DayIndex(d) == Ordinal(d) - Ordinal(MkDate(config.year, 1, 1))

\* the ticks of the days the day loop has completed
TicksOfCompletedDays ==
    24 * TICKS_PER_HOUR * day
    - (IF DayIndex(spring_forward) < day THEN TICKS_PER_HOUR ELSE 0)
    + (IF DayIndex(fall_back) < day THEN TICKS_PER_HOUR ELSE 0)

\* C3: for every year, leap years included, a call on a valid configuration
\* simulates the 365 consecutive days from 1 January on and 35040 ticks in
\* all (one day of 92 ticks, one of 100, 363 of 96), and then returns a
\* result.
C3_YearOfTicks ==
    /\ pc = "tick" =>
         /\ day \in 0..364
         /\ date.year = config.year
         /\ DayIndex(date) = day
         /\ ticks_today \in {92, 96, 100}
         /\ ticks_run = TicksOfCompletedDays + tick_in_day
    /\ pc = "loop" =>
         /\ day \in 0..365
         /\ ticks_run = TicksOfCompletedDays
    /\ Running =>
         /\ DayIndex(spring_forward) \in 0..364
         /\ DayIndex(fall_back) \in 0..364
         /\ spring_forward # fall_back
    /\ pc = "done" =>
         /\ day = 365
         /\ ticks_run = 35040
         /\ ticks_run = 92 + 100 + 363 * 96
         /\ result # None
    /\ pc = "tick" => tick_in_day < ticks_today
    /\ pc \in {"idle", "loop"} => ENABLED NextOneCall

C3_Witness ==
    /\ pc = "done"
    /\ IsLeap(config.year)
    /\ ticks_run = 35040
    /\ date = MkDate(config.year, 12, 30)

\* d is the last Sunday of month m of its year
IsLastSundayOf(d, m) ==
    /\ d.month = m
    /\ d.day \in 1..DaysInMonth(d.year, m)
    /\ Weekday(d) = 6
    /\ d.day + 7 > DaysInMonth(d.year, m)

RECURSIVE AdmittedDraws(_, _)
AdmittedDraws(draws, n) ==
    IF n > Len(draws) THEN 0
    ELSE (IF draws[n][2] = "demand" /\ draws[n][3] # 0 THEN 1 ELSE 0)
         + AdmittedDraws(draws, n + 1)

RECURSIVE SumCounts(_, _)
SumCounts(stats, keys) ==
    IF keys = {} THEN 0
    ELSE LET k == CHOOSE x \in keys : TRUE
         IN  stats[k].count + SumCounts(stats, keys \ {k})

\* C4: in a call whose chargers all have power_kw > 0, the load of every
\* tick and the running actual_max_kw are at most theoretical_max_kw, the
\* sum of power_kw * count as the code computes it, and the returned
\* concurrency_factor lies in [0, 1].
C4_LoadBounded ==
    (/\ pc \in {"loop", "tick", "done"}
     /\ \A n \in 1..Len(config.chargers) : config.chargers[n].power_kw > 0)
    => LET theoretical_max_kw == TheoreticalMaxKw(config.chargers)
       IN  /\ last.load_kw <= theoretical_max_kw
           /\ actual_max_kw <= theoretical_max_kw
           /\ result # None =>
                 /\ result[1].theoretical_max_kw = theoretical_max_kw
                 /\ result[1].concurrency_factor \in 0..CfScale

\* the concurrency factor alone
C4_FactorInUnit ==
    result # None => result[1].concurrency_factor \in 0..CfScale

\* C5: every tick appends exactly one ChargingEvent per admitted arrival (a
\* successful arrival draw followed by a nonzero km), and the returned
\* total_charging_events is the length of charging_events and the sum of
\* count over the service's rollup by charger type.
C5_EventCount ==
    /\ (Running /\ last.day >= 0) =>
         /\ Len(charging_events)
              = last.events_before + AdmittedDraws(last.draws, 1)
         /\ Len(last.emitted) = AdmittedDraws(last.draws, 1)
    /\ pc = "done" =>
         LET rollup == charger_type_stats(result[1].charging_events)
         IN  /\ result[1].total_charging_events
                  = Len(result[1].charging_events)
             /\ result[1].total_charging_events
                  = SumCounts(rollup, DOMAIN rollup)

C5_Witness ==
    /\ pc = "done"
    /\ result[1].total_charging_events > 1
    /\ Cardinality(DOMAIN charger_type_stats(result[1].charging_events)) = 2

\* C6: with arrival_multiplier = 0 no slot ever becomes occupied and no
\* event is emitted; the call returns total_energy_kwh = 0,
\* actual_max_kw = 0 and concurrency_factor = 0.
C6_NoArrivalsAtZero ==
    (config.arrival_multiplier = 0 /\ ~Invalid(config)) =>
        /\ Running =>
             /\ \A h \in 1..24 : p_tick[h] = 0
             /\ charging_events = << >>
             /\ total_energy = 0
             /\ actual_max_kw = 0
             /\ \A i \in 1..Len(charger_states) :
                    charger_states[i].remaining = 0
             /\ last.emitted = << >>
        /\ pc = "done" =>
             /\ result[1].total_charging_events = 0
             /\ result[1].charging_events = << >>
             /\ result[1].total_energy_kwh = 0
             /\ result[1].actual_max_kw = 0
             /\ result[1].concurrency_factor = 0

C6_Witness ==
    /\ config.arrival_multiplier = 0
    /\ pc = "done"
    /\ ticks_run = 35040
    /\ Len(charger_states) = 2
    /\ Len(last.tested) = 2

\* the multiset of the charger specs of a list: spec -> occurrences
SpecBag(chargers) ==
    [ c \in { chargers[n] : n \in 1..Len(chargers) } |->
        Cardinality({ n \in 1..Len(chargers) : chargers[n] = c }) ]

SameButOrder(a, b) ==
    /\ SpecBag(a.chargers) = SpecBag(b.chargers)
    /\ a.arrival_multiplier = b.arrival_multiplier
    /\ a.energy_per_km = b.energy_per_km
    /\ a.year = b.year
    /\ a.seed = b.seed

\* C7: two calls whose configurations differ only in the order of the
\* charger list, with the same seed, return the same total_energy_kwh,
\* actual_max_kw, total_charging_events and events_statistics.
C7_OrderInvariance ==
    \A i, j \in 1..Len(seen) :
        (i < j /\ SameButOrder(seen[i][1], seen[j][1])
               /\ seen[i][1].seed # None)
        => /\ seen[i][2].total_energy_kwh = seen[j][2].total_energy_kwh
           /\ seen[i][2].actual_max_kw = seen[j][2].actual_max_kw
           /\ seen[i][2].total_charging_events
                = seen[j][2].total_charging_events
           /\ seen[i][2].events_statistics = seen[j][2].events_statistics

\* the slots of cs, in ascending order, whose remaining energy is 0
RECURSIVE FreeOf(_, _)
FreeOf(cs, i) ==
    IF i > Len(cs) THEN << >>
    ELSE (IF cs[i].remaining = 0 THEN << i >> ELSE << >>) \o FreeOf(cs, i + 1)

InSeq(x, seq) == \E n \in 1..Len(seq) : seq[n] = x

\* C9: in every tick the arrival phase starts from the state the serve
\* phase left after it went over all slots, and the slots tested for an
\* arrival are exactly the slots whose remaining energy was 0 at the start
\* of the tick; a slot whose energy reaches 0 in the serve phase of the
\* tick is neither tested nor given an event in that tick.
C9_TwoPhase ==
    last.day >= 0 =>
        /\ last.free_indices = FreeOf(last.before, 1)
        /\ last.tested = last.free_indices
        /\ \A j \in 1..Len(last.before) :
              IF last.before[j].remaining > 0
              THEN /\ ~InSeq(j, last.tested)
                   /\ ~InSeq(j, last.emitted)
                   /\ last.after_serve[j].remaining
                        < last.before[j].remaining
              ELSE last.after_serve[j] = last.before[j]
        /\ \A n \in 1..Len(last.emitted) : InSeq(last.emitted[n], last.tested)

C9_Witness ==
    /\ last.day >= 0
    /\ \E j \in 1..Len(last.before) :
          /\ last.before[j].remaining > 0
          /\ last.after_serve[j].remaining = 0
    /\ Len(last.tested) > 0

\* the last cumulative threshold of the demand table, and its km
FinalThreshold == _DEMAND_CUMULATIVE[Len(_DEMAND_CUMULATIVE)][1]
FinalKm == _DEMAND_CUMULATIVE[Len(_DEMAND_CUMULATIVE)][2]

\* C8 as stated: a draw of 0.0 yields the first bucket (0 km), and every
\* draw at or above the final cumulative threshold yields 0 km.
C8_AtOrAboveIsZero ==
    sample # None =>
        /\ sample[1].draw = 0 =>
              /\ sample[1].km = _DEMAND_CUMULATIVE[1][2]
              /\ sample[1].km = 0
        /\ sample[1].draw >= FinalThreshold => sample[1].km = 0

\* C8, amended: a draw of 0.0 yields the first bucket (0 km); every draw
\* strictly above the final cumulative threshold yields 0 km without a
\* fault; a draw equal to the final threshold yields the km of the last
\* bucket (300 km).
C8_SampleBoundary ==
    sample # None =>
        /\ sample[1].draw = 0 =>
              /\ sample[1].km = _DEMAND_CUMULATIVE[1][2]
              /\ sample[1].km = 0
        /\ sample[1].draw > FinalThreshold => sample[1].km = 0
        /\ sample[1].draw = FinalThreshold =>
              /\ sample[1].km = FinalKm
              /\ sample[1].km = 300

C8_Witness ==
    /\ sample # None
    /\ sample[1].draw = FinalThreshold
    /\ sample[1].km = 300
    /\ FinalThreshold < RandMax - 1

\* C12: a call on a config that passes validation and whose total capacity,
\* the sum of power_kw * count, is 0 raises nothing, runs its ticks to the
\* end and returns theoretical_max_kw = 0 and concurrency_factor = 0.
C12_DegenerateCapacity ==
    (/\ Len(config.chargers) > 0
     /\ \A n \in DOMAIN config.chargers :
            /\ config.chargers[n].count >= 1
            /\ config.chargers[n].power_kw = 0
     /\ pc # "idle")
    => /\ error = None
       /\ pc \in {"loop", "tick", "done"}
       /\ pc = "tick" => tick_in_day < ticks_today
       /\ pc = "done" =>
             /\ result # None
             /\ ticks_run = 35040
             /\ result[1].theoretical_max_kw = 0
             /\ result[1].actual_max_kw = 0
             /\ result[1].concurrency_factor = 0

C12_Witness ==
    /\ pc = "done"
    /\ Len(config.chargers) > 0
    /\ \A n \in DOMAIN config.chargers : config.chargers[n].power_kw = 0
    /\ result[1].total_charging_events > 0
    /\ result[1].concurrency_factor = 0

\* C20: for every arrival_multiplier >= 0 the per-tick arrival probability
\* of every hour is defined and lies in [0, 1]: the call does not fault
\* when computing it, and an hour whose scaled rate pct * multiplier / 100
\* reaches or exceeds 1 gets the probability 1.
C20_PTickDefined ==
    (/\ Len(config.chargers) > 0
     /\ \A n \in DOMAIN config.chargers : config.chargers[n].count >= 1
     /\ config.arrival_multiplier >= 0
     /\ pc # "idle")
    => /\ error = None
       /\ pc \in {"loop", "tick"} =>
             \A h \in 1..24 :
                 /\ p_tick[h] \in 0..RandMax
                 /\ _ARRIVAL_PCT_PER_HOUR[h] * config.arrival_multiplier
                        >= 100000 => p_tick[h] = RandMax

\* a residue below the clamp threshold counts as nothing
Clamped(x) == IF x < Eps THEN 0 ELSE x

Smaller(a, b) == IF a <= b THEN a ELSE b

\* the demand draws of a tick that gave a nonzero km, in drawing order
Admitted(draws) ==
    LET Nonzero(e) == e[2] = "demand" /\ e[3] > 0
    IN  SelectSeq(draws, Nonzero)

\* the wall-clock time of tick number t of day number d of the run
TimeOfTick(d, t) ==
    [ date |-> AddDays(config.year, d),
      hour |-> (t \div 4) % 24,
      minute |-> (t % 4) * 15 ]

RECURSIVE AdmissionDelivered(_, _, _)
\* what the admissions adm deliver in their own tick, from the n-th on
AdmissionDelivered(adm, slots, n) ==
    IF n > Len(adm) THEN 0
    ELSE Smaller(slots[adm[n][1]].energy_per_tick,
                 adm[n][3] * config.energy_per_km)
         + AdmissionDelivered(adm, slots, n + 1)

\* C15: an arrival whose demand draw is nonzero is admitted in its tick:
\* energy_need = km * energy_per_km, min(energy_per_tick, energy_need) is
\* added to the total energy, the slot keeps energy_need minus that
\* (nothing if below the clamp threshold), and exactly one ChargingEvent is
\* appended, with energy_kwh = energy_need, charger_type = power_kw = the
\* slot's rating and start_time = the date, hour and minute of the tick.
C15_Admission ==
    last.day >= 0 =>
        LET adm == Admitted(last.draws)
        IN  /\ Len(charging_events) = last.events_before + Len(adm)
            /\ total_energy = last.energy_after_serve
                                + AdmissionDelivered(adm, last.after_serve, 1)
            /\ \A n \in 1..Len(adm) :
                 LET i == adm[n][1]
                     energy_need == adm[n][3] * config.energy_per_km
                     delivered ==
                         Smaller(last.after_serve[i].energy_per_tick,
                                 energy_need)
                     event == charging_events[last.events_before + n]
                 IN  /\ last.after_serve[i].remaining = 0
                     /\ charger_states[i].remaining
                          = Clamped(energy_need - delivered)
                     /\ event.energy_kwh = energy_need
                     /\ event.charger_type = charger_states[i].power_kw
                     /\ event.power_kw = charger_states[i].power_kw
                     /\ event.start_time
                          = TimeOfTick(last.day, last.tick_in_day)

C15_Witness ==
    /\ last.day >= 0
    /\ \E n \in 1..Len(Admitted(last.draws)) :
          LET e == Admitted(last.draws)[n]
          IN  /\ e[3] * config.energy_per_km
                   > last.after_serve[e[1]].energy_per_tick + Eps
              /\ charger_states[e[1]].remaining > 0
    /\ last.tick_in_day % 4 # 0

RECURSIVE OccupiedPower(_, _)
\* the sum of power_kw over the slots of cs, from the j-th on, in session
OccupiedPower(cs, j) ==
    IF j > Len(cs) THEN 0
    ELSE (IF cs[j].remaining > 0 THEN cs[j].power_kw ELSE 0)
         + OccupiedPower(cs, j + 1)

RECURSIVE LcgN(_, _)
\* the generator state k draws after state s
LcgN(s, k) == IF k = 0 THEN s ELSE LcgN(Lcg(s), k - 1)

\* C16: a successful arrival draw followed by a demand draw of 0 km leaves
\* the slot free and without an event; a tick whose demand draws are all
\* 0 km changes nothing after its serve phase but the generator: the event
\* list, the period statistics, the total energy, the slots and the load
\* are those the serve phase left.
C16_ZeroKmFrame ==
    [][ pc = "tick" =>
          LET d == last'.draws
          IN  /\ \A k \in 1..Len(d) :
                   (d[k][2] = "demand" /\ d[k][3] = 0) =>
                       /\ charger_states'[d[k][1]].remaining = 0
                       /\ charger_states'[d[k][1]]
                            = last'.after_serve[d[k][1]]
                       /\ ~InSeq(d[k][1], last'.emitted)
              /\ Admitted(d) = << >> =>
                   /\ charging_events' = charging_events
                   /\ events_by_day' = events_by_day
                   /\ events_by_week' = events_by_week
                   /\ events_by_month' = events_by_month
                   /\ events_by_year' = events_by_year
                   /\ total_energy' = last'.energy_after_serve
                   /\ charger_states' = last'.after_serve
                   /\ last'.load_kw = OccupiedPower(last'.after_serve, 1)
                   /\ rng' = LcgN(rng, Len(d)) ]_vars

C16_Witness ==
    /\ last.day >= 0
    /\ \E k \in 1..Len(last.draws) :
          last.draws[k][2] = "demand" /\ last.draws[k][3] = 0
    /\ Admitted(last.draws) = << >>
    /\ Len(charging_events) > 0

RECURSIVE ServeDelivered(_, _)
\* what the serve phase delivers to the slots of cs, from the j-th on
ServeDelivered(cs, j) ==
    IF j > Len(cs) THEN 0
    ELSE (IF cs[j].remaining > 0
          THEN Smaller(cs[j].energy_per_tick, cs[j].remaining) ELSE 0)
         + ServeDelivered(cs, j + 1)

\* C17: in the serve phase of every tick each slot with remaining > 0
\* delivers min(energy_per_tick, remaining), which leaves its remaining
\* energy (a residue below the clamp threshold becoming 0) and joins the
\* total energy; a slot with remaining = 0 delivers nothing and is left
\* as it was.
C17_ServePhase ==
    last.day >= 0 =>
        /\ Len(last.after_serve) = Len(last.before)
        /\ last.energy_after_serve
             = last.energy_before + ServeDelivered(last.before, 1)
        /\ \A j \in 1..Len(last.before) :
             LET b == last.before[j]
                 a == last.after_serve[j]
             IN  IF b.remaining > 0
                 THEN /\ a.remaining
                           = Clamped(b.remaining
                                     - Smaller(b.energy_per_tick, b.remaining))
                      /\ a.power_kw = b.power_kw
                      /\ a.energy_per_tick = b.energy_per_tick
                 ELSE a = b

C17_Witness ==
    /\ last.day >= 0
    /\ \E j \in 1..Len(last.before) :
          /\ last.before[j].remaining > 0
          /\ last.before[j].remaining < last.before[j].energy_per_tick
          /\ last.after_serve[j].remaining = 0
    /\ last.energy_after_serve > last.energy_before

\* the slot indices of the arrival draws of a tick, in drawing order
ArrivalSlots(draws) ==
    LET IsArrival(e) == e[2] = "arrival"
        arrivals == SelectSeq(draws, IsArrival)
    IN  [ n \in 1..Len(arrivals) |-> arrivals[n][1] ]

\* C18: the run consumes the generator in day, tick, ascending slot order:
\* a tick makes one arrival draw for each slot free at its start, in
\* ascending slot order, a demand draw directly after each successful
\* arrival draw and for the same slot, and no draw for a slot in session;
\* the generator advances by exactly the draws made, and the next tick is
\* the following one of the day or the first of the next day.
C18_DrawOrder ==
    [][ pc = "tick" =>
          LET d == last'.draws
              p_arrival == p_tick[((tick_in_day \div 4) % 24) + 1]
          IN  /\ last'.day = day
              /\ last'.tick_in_day = tick_in_day
              /\ ArrivalSlots(d) = FreeOf(charger_states, 1)
              /\ \A k \in 1..Len(d) :
                   IF d[k][2] = "arrival"
                   THEN (DrawOf(LcgN(rng, k)) < p_arrival)
                        <=> /\ k < Len(d)
                            /\ d[k + 1][2] = "demand"
                            /\ d[k + 1][1] = d[k][1]
                   ELSE /\ k > 1
                        /\ d[k - 1][2] = "arrival"
                        /\ d[k - 1][1] = d[k][1]
              /\ rng' = LcgN(rng, Len(d))
              /\ \/ day' = day /\ tick_in_day' = tick_in_day + 1
                               /\ pc' = "tick"
                 \/ day' = day + 1 /\ pc' = "loop" ]_vars

C18_Witness ==
    /\ last.day >= 0
    /\ Len(last.draws) >= 3
    /\ last.draws[1][2] = "arrival"
    /\ last.draws[2][2] = "demand"
    /\ last.draws[3][2] = "arrival"
    /\ last.draws[3][1] > last.draws[1][1]
    /\ last.draws[2][3] > 0

\* C19: after both phases of a tick the load is the sum of power_kw over
\* the slots whose remaining energy is > 0 then, and actual_max_kw, which
\* starts at 0, is the larger of its value before the tick and that load;
\* nothing else changes it during the run.
C19_LoadAndPeak ==
    [][ /\ (pc = "idle" /\ pc' = "loop") => actual_max_kw' = 0
        /\ pc = "tick" =>
             /\ last'.load_kw = OccupiedPower(charger_states', 1)
             /\ actual_max_kw' = IF last'.load_kw > actual_max_kw
                                 THEN last'.load_kw ELSE actual_max_kw
        /\ pc = "loop" => actual_max_kw' = actual_max_kw ]_vars

C19_Witness ==
    /\ last.day >= 0
    /\ last.load_kw > 0
    /\ actual_max_kw > last.load_kw
    /\ \E j \in 1..Len(charger_states) : charger_states[j].remaining = 0

\* the rows a run of the service writes
ResultRows(d) ==
    << d.simulation_results, d.charging_events, d.event_period_statistics,
       d.event_charger_statistics >>

\* a configuration of this id is in the store
Stored(d, config_id) == \E c \in d.simulation_configs : c.id = config_id

\* the configurations run_simulation raises ValueError on
Rejected(cfg) ==
    \/ Len(cfg.chargers) = 0
    \/ \E n \in 1..Len(cfg.chargers) : cfg.chargers[n].count < 1

\* C13: a run of the service that fails, for want of a stored configuration
\* or because the engine rejects the stored one (no charger, or a count
\* below 1), is answered with an HTTP error and leaves no result, event or
\* statistics row behind.
C13_FailedRunPersistsNothing ==
    [][ /\ ( /\ svc'.reply # None
             /\ svc' # svc
             /\ svc'.reply[1].op = "run"
             /\ svc'.reply[1].status # 200 )
           => /\ svc'.reply[1].status \in {404, 500}
              /\ ResultRows(db') = ResultRows(db)
        /\ ( /\ svc.pc = "ready"
             /\ svc' # svc
             /\ svc'.reply # None
             /\ svc'.reply[1].op = "run" )
           => /\ ~Stored(db, svc'.reply[1].config_id)
              /\ svc'.reply[1].status = 404
        /\ ( svc.pc = "running" /\ Rejected(config) )
           => /\ pc' \in {"idle", "raised", "none"}
              /\ ResultRows(db') = ResultRows(db)
              /\ svc'.pc = "ready" => svc'.reply[1].status = 404
        /\ ResultRows(db') # ResultRows(db)
           => \/ svc'.reply[1].op = "delete"
              \/ /\ pc = "done"
                 /\ svc'.reply[1].op = "run"
                 /\ svc'.reply[1].status = 200 ]_vars

C13_Witness ==
    /\ svc.pc = "ready"
    /\ svc.reply # None
    /\ svc.reply[1].op = "run"
    /\ svc.reply[1].status = 404
    /\ Stored(db, svc.reply[1].config_id)
    /\ calls = 1
    /\ ResultRows(db) = ResultRows(EmptyDb)

\* every foreign key names a row of the table it refers to
Integrity(d) ==
    /\ \A c \in d.charger_configs : Stored(d, c.config_id)
    /\ \A r \in d.simulation_results : Stored(d, r.config_id)
    /\ \A e \in d.charging_events \cup d.event_period_statistics
                \cup d.event_charger_statistics :
          \E r \in d.simulation_results : r.id = e.result_id

\* C14: whatever configurations were created, run and deleted, every
\* charger row and result row names a stored configuration and every
\* event or statistics row names a stored result, and a delete that
\* succeeded leaves nothing of its configuration.
C14_ReferentialIntegrity ==
    /\ []Integrity(db)
    /\ [][ ( /\ svc'.reply # None
             /\ svc'.reply[1].op = "delete"
             /\ svc'.reply[1].status = 204
             /\ svc' # svc )
           => /\ Stored(db, svc'.reply[1].config_id)
              /\ ~Stored(db', svc'.reply[1].config_id) ]_vars
    /\ [](\A c \in db.simulation_configs :
            c.id < db.next_id.simulation_configs)

C14_Witness ==
    /\ svc.reply # None
    /\ svc.reply[1].op = "delete"
    /\ svc.reply[1].status = 204
    /\ db.next_id.simulation_results > 1
    /\ db.next_id.charging_events > 1
    /\ db.next_id.event_charger_statistics > 1
    /\ ResultRows(db) = ResultRows(EmptyDb)

\* C11: a run with its own seed returns what it returns alone, however the
\* seeding and the draws of another run in the same process fall between
\* its own.
C11_ParallelSafe ==
    (pc = "done" /\ calls > 1) => result[1] = seen[1][2]

\* C21: every tick of every day, those of the 92-tick and of the 100-tick
\* day included, has an hour of day in 0..23 and a minute in {0, 15, 30,
\* 45}, hour and minute being those of the tick counted round the clock,
\* and draws its arrivals with the table entry of that hour.
C21_HourOfTick ==
    last.day >= 0 =>
        /\ last.hour_idx \in 0..23
        /\ last.minute \in {0, 15, 30, 45}
        /\ (last.hour_idx * 60 + last.minute) \div 15
              = last.tick_in_day % (24 * 4)
        /\ last.p_arrival = p_tick[last.hour_idx + 1]
        /\ last.p_arrival
              = PTickOf(_ARRIVAL_PCT_PER_HOUR[last.hour_idx + 1],
                        config.arrival_multiplier)

C21_Witness ==
    /\ last.tick_in_day = 99
    /\ last.hour_idx = 0
    /\ last.minute = 45
    /\ last.p_arrival > 0

RECURSIVE CountAll(_, _)
\* the events counted in the cells of the periods of a running statistic
CountAll(stats, periods) ==
    IF periods = {} THEN 0
    ELSE LET period == CHOOSE x \in periods : TRUE
         IN  SumCounts(stats[period], DOMAIN stats[period])
             + CountAll(stats, periods \ {period})

RECURSIVE PowerOfEvents(_, _)
\* the sum of power_kw over the events numbered in which
PowerOfEvents(events, which) ==
    IF which = {} THEN 0
    ELSE LET n == CHOOSE x \in which : TRUE
         IN  events[n].power_kw + PowerOfEvents(events, which \ {n})

\* the period key of a date in each granularity, as the result spells it
KeyOfDate(granularity, d) ==
    CASE granularity = "by_day" -> StrDate(d)
      [] granularity = "by_week" -> StrInt(IsoWeek(d))
      [] granularity = "by_month" -> StrInt(d.month)
      [] granularity = "by_year" -> StrInt(d.year)

\* C22: in each of by_day, by_week, by_month and by_year every event is
\* counted once, under the key of the date of the tick that emitted it:
\* the counts of a granularity add up to the number of events, and in the
\* result each period's total_events and total_power_kw are the number
\* and the summed power_kw of the events whose date has that key.
C22_PeriodPartition ==
    /\ pc \in {"loop", "tick", "done"} =>
         /\ CountAll(events_by_year, DOMAIN events_by_year)
              = Len(charging_events)
         /\ CountAll(events_by_month, DOMAIN events_by_month)
              = Len(charging_events)
         /\ CountAll(events_by_week, DOMAIN events_by_week)
              = Len(charging_events)
    /\ pc = "done" =>
         LET events == result[1].charging_events
             stats == result[1].events_statistics
         IN  \A granularity \in {"by_day", "by_week", "by_month", "by_year"} :
               /\ \A n \in 1..Len(events) :
                     KeyOfDate(granularity, events[n].start_time.date)
                       \in DOMAIN stats[granularity]
               /\ \A key \in DOMAIN stats[granularity] :
                     LET which ==
                           { n \in 1..Len(events) :
                               KeyOfDate(granularity,
                                         events[n].start_time.date) = key }
                     IN  /\ stats[granularity][key].total_events
                              = Cardinality(which)
                         /\ stats[granularity][key].total_power_kw
                              = PowerOfEvents(events, which)
                         /\ which # {}

C22_Witness ==
    /\ pc = "done"
    /\ Len(result[1].charging_events) > 12
    /\ Cardinality(DOMAIN result[1].events_statistics.by_month) = 12
    /\ \E key \in DOMAIN result[1].events_statistics.by_day :
         result[1].events_statistics.by_day[key].total_events > 1

\* the entries of the cumulative table whose threshold is at or above r
Matching(r) ==
    { n \in 1..Len(_DEMAND_CUMULATIVE) : _DEMAND_CUMULATIVE[n][1] >= r }

\* C23: the sampler returns the km of the first entry of the cumulative
\* table, in table order, whose threshold is at or above the draw; it
\* returns 0 km only for a draw above the last threshold or when that
\* first entry is the 0 km bucket; the nine thresholds ascend strictly.
C23_FirstMatchingBucket ==
    /\ Len(_DEMAND_CUMULATIVE) = 9
    /\ \A n \in 1..(Len(_DEMAND_CUMULATIVE) - 1) :
         _DEMAND_CUMULATIVE[n][1] < _DEMAND_CUMULATIVE[n + 1][1]
    /\ sample # None =>
         LET r == sample[1].draw
             first == CHOOSE n \in Matching(r) : \A m \in Matching(r) : n <= m
         IN  /\ Matching(r) # {} =>
                   sample[1].km = _DEMAND_CUMULATIVE[first][2]
             /\ Matching(r) = {} => sample[1].km = 0
             /\ sample[1].km = 0 =>
                   \/ r > FinalThreshold
                   \/ _DEMAND_CUMULATIVE[first][2] = 0

C23_Witness ==
    /\ sample # None
    /\ sample[1].draw = _DEMAND_CUMULATIVE[2][1]
    /\ sample[1].km = 5

\* the stored result row r and its event rows are those of the engine's
\* result res
PersistedAs(d, r, res) ==
    /\ r.total_energy_kwh = res.total_energy_kwh
    /\ r.theoretical_max_kw = res.theoretical_max_kw
    /\ r.actual_max_kw = res.actual_max_kw
    /\ r.concurrency_factor = res.concurrency_factor
    /\ r.total_charging_events = res.total_charging_events
    /\ { [ charger_type |-> e.charger_type, start_time |-> e.start_time,
           energy_kwh |-> e.energy_kwh, power_kw |-> e.power_kw ] :
           e \in { x \in d.charging_events : x.result_id = r.id } }
         = { res.charging_events[n] : n \in 1..Len(res.charging_events) }
    /\ Cardinality({ x \in d.charging_events : x.result_id = r.id })
         = Len(res.charging_events)

\* C24: the engine runs as one piece of synchronous work: from its call to
\* the end of its last tick no coroutine of the event loop takes a step,
\* so the engine runs of two concurrent run requests do not interleave
\* and every result stored is the one the configuration and seed give
\* when run alone.
C24_AtomicEngine ==
    /\ [][ (pc \in {"idle", "loop", "tick"})
             => (handlers' = handlers /\ db' = db) ]_vars
    /\ [](\A r \in db.simulation_results :
            /\ seen # << >>
            /\ PersistedAs(db, r, seen[1][2]))

C24_Witness ==
    /\ Cardinality(db.simulation_results) = 2
    /\ \A h \in 1..2 : handlers[h].pc = "finished"
    /\ Len(seen) = 2
    /\ db.charging_events # {}

RECURSIVE EnergyOfEvents(_, _, _)
\* the sum of energy_kwh over the events numbered lo..hi
EnergyOfEvents(events, lo, hi) ==
    IF lo > hi THEN 0
    ELSE IF lo = hi THEN events[lo].energy_kwh
    ELSE LET mid == (lo + hi) \div 2
         IN  EnergyOfEvents(events, lo, mid)
             + EnergyOfEvents(events, mid + 1, hi)

RECURSIVE RemainingOf(_, _)
\* the sum of the remaining energy over the slots of cs, from the j-th on
RemainingOf(cs, j) ==
    IF j > Len(cs) THEN 0
    ELSE cs[j].remaining + RemainingOf(cs, j + 1)

\* the energy asked for by the events so far that is neither delivered
\* nor still remaining on a slot
Unaccounted ==
    EnergyOfEvents(charging_events, 1, Len(charging_events))
    - (total_energy + RemainingOf(charger_states, 1))

\* C25: at the end of every tick the energy delivered so far plus the
\* energy remaining on the slots is the summed energy_kwh of the events
\* so far, up to the residues below the clamp threshold that were dropped
\* (less than the threshold for each event); the total energy delivered
\* never exceeds the summed energy_kwh of the events.
C25_EnergyConservation ==
    pc \in {"loop", "tick", "done"} =>
        /\ Unaccounted >= 0
        /\ Unaccounted <= (Eps - 1) * Len(charging_events)
        /\ total_energy
              <= EnergyOfEvents(charging_events, 1, Len(charging_events))

C25_Witness ==
    /\ pc = "tick"
    /\ Len(charging_events) > 2
    /\ Unaccounted > 0
    /\ RemainingOf(charger_states, 1) > 0

CeilDiv(a, b) == (a + b - 1) \div b

\* ceil(r / energy_per_tick): the ticks an energy r takes to deliver
TicksFor(r, slot) == CeilDiv(r, slot.energy_per_tick)

\* the ticks after which less than the clamp threshold is left of r, one at
\* least for a session that starts
TicksToClamp(r, slot) ==
    IF r < Eps THEN 0 ELSE CeilDiv(r - Eps + 1, slot.energy_per_tick)

\* the position in last.emitted of slot i
EmittedAt(i) == CHOOSE k \in 1..Len(last.emitted) : last.emitted[k] = i

\* the energy_kwh of the event the last tick emitted for slot i
NeedOf(i) == charging_events[last.events_before + EmittedAt(i)].energy_kwh

\* no event for a slot in session at the start of the tick, and at most
\* one event for a slot in a tick
NoDoubleBooking ==
    /\ \A k \in 1..Len(last.emitted) :
          /\ last.before[last.emitted[k]].remaining = 0
          /\ \A m \in 1..Len(last.emitted) :
                last.emitted[m] = last.emitted[k] => m = k
    /\ Len(charging_events) = last.events_before + Len(last.emitted)

\* C26 as stated: with power_kw > 0 and energy_per_km > 0, a session of
\* need E admitted at tick t holds its slot until the end of tick
\* t + ceil(E / energy_per_tick) - 1: each tick takes exactly one off the
\* ticks its energy still needs; and a slot in session gets no event, a
\* slot at most one event in a tick.
C26_SessionLength ==
    (Running /\ last.day >= 0) =>
        /\ NoDoubleBooking
        /\ \A i \in 1..Len(charger_states) :
              LET slot == charger_states[i]
                  in_session == last.before[i].remaining > 0
                  admitted == \E k \in 1..Len(last.emitted) :
                                 last.emitted[k] = i
              IN  /\ in_session =>
                        TicksFor(slot.remaining, slot)
                          = TicksFor(last.before[i].remaining, slot) - 1
                  /\ admitted =>
                        TicksFor(slot.remaining, slot)
                          = TicksFor(NeedOf(i), slot) - 1
                  /\ (~in_session /\ ~admitted) => slot.remaining = 0

\* C26, amended: a session of need E admitted at tick t holds its slot
\* until the end of the first tick that leaves less than the clamp
\* threshold of it undelivered, which is tick
\* t + ceil(E / energy_per_tick) - 1 or, when the last tick's share would
\* be below the threshold, the tick before; and a slot in session gets no
\* event, a slot at most one event in a tick.
C26_SessionLengthClamped ==
    (Running /\ last.day >= 0) =>
        /\ NoDoubleBooking
        /\ \A i \in 1..Len(charger_states) :
              LET slot == charger_states[i]
                  in_session == last.before[i].remaining > 0
                  admitted == \E k \in 1..Len(last.emitted) :
                                 last.emitted[k] = i
              IN  /\ in_session =>
                        /\ TicksToClamp(slot.remaining, slot)
                             = TicksToClamp(last.before[i].remaining, slot)
                               - 1
                        /\ TicksToClamp(last.before[i].remaining, slot)
                             \in { TicksFor(last.before[i].remaining, slot),
                                   TicksFor(last.before[i].remaining, slot)
                                   - 1 }
                  /\ admitted =>
                        /\ TicksToClamp(slot.remaining, slot)
                             = Max(1, TicksToClamp(NeedOf(i), slot)) - 1
                        /\ TicksToClamp(NeedOf(i), slot)
                             \in { TicksFor(NeedOf(i), slot),
                                   TicksFor(NeedOf(i), slot) - 1 }
                  /\ (~in_session /\ ~admitted) => slot.remaining = 0

\* a session ended by the clamp, a tick before its energy was through
C26_Witness ==
    /\ Running
    /\ last.day >= 0
    /\ \E i \in 1..Len(charger_states) :
         /\ last.before[i].remaining > charger_states[i].energy_per_tick
         /\ charger_states[i].remaining = 0
    /\ \A i \in 1..Len(charger_states) :
         charger_states[i].energy_per_tick > 0
    /\ config.energy_per_km > 0

RECURSIVE SumOfCounts(_, _)
\* the sum of count over the charger specs, from the n-th on
SumOfCounts(chargers, n) ==
    IF n > Len(chargers) THEN 0
    ELSE chargers[n].count + SumOfCounts(chargers, n + 1)

RECURSIVE SpecOfSlot(_, _, _)
\* the charger spec that slot i was expanded from, n being the first spec
\* not yet passed
SpecOfSlot(chargers, i, n) ==
    IF i <= chargers[n].count THEN chargers[n]
    ELSE SpecOfSlot(chargers, i - chargers[n].count, n + 1)

\* C27: throughout a run on chargers of power_kw > 0 with
\* energy_per_km >= 0, the remaining energy of every slot is never
\* negative, after the serve phase as at the end of a tick, there are as
\* many slots as the counts of the charger specs add up to, and every slot
\* keeps the power_kw of its spec and energy_per_tick = power_kw * 0.25:
\* the tick loop changes nothing of a slot but its remaining energy.
C27_SlotFrame ==
    (/\ pc \in {"loop", "tick", "done"}
     /\ config.energy_per_km >= 0
     /\ \A n \in 1..Len(config.chargers) : config.chargers[n].power_kw > 0)
    => /\ Len(charger_states) = SumOfCounts(config.chargers, 1)
       /\ \A i \in 1..Len(charger_states) :
             /\ charger_states[i].remaining >= 0
             /\ charger_states[i].power_kw
                  = SpecOfSlot(config.chargers, i, 1).power_kw
             /\ charger_states[i].energy_per_tick * 4
                  = charger_states[i].power_kw
             /\ DOMAIN charger_states[i]
                  = {"power_kw", "remaining", "energy_per_tick"}
       /\ last.day >= 0 =>
             /\ Len(last.after_serve) = Len(charger_states)
             /\ \A i \in 1..Len(last.after_serve) :
                   /\ last.after_serve[i].remaining >= 0
                   /\ last.after_serve[i].power_kw
                        = charger_states[i].power_kw
                   /\ last.after_serve[i].energy_per_tick
                        = charger_states[i].energy_per_tick

C27_Witness ==
    /\ pc = "tick"
    /\ ticks_run > 96
    /\ Len(config.chargers) = 1
    /\ Len(charger_states) = 2
    /\ \E i \in 1..2 :
         /\ last.after_serve[i].remaining > 0
         /\ charger_states[i].remaining
              < last.after_serve[i].remaining + 1
         /\ last.before[i].remaining > last.after_serve[i].remaining

\* a number that orders datetimes as datetime.datetime orders them
Minutes(t) ==
    (((t.date.year * 13 + t.date.month) * 32 + t.date.day) * 24 + t.hour)
    * 60 + t.minute

\* C28: in charging_events, in the order of emission, start_time never
\* decreases, on the days of 92 and of 100 ticks as on the others: no
\* event of a tick starts before the event emitted before it, and the
\* returned list ascends throughout.
C28_StartTimesAscend ==
    /\ (Running /\ last.day >= 0) =>
          \A n \in 1..(Len(charging_events) - 1) :
              n >= last.events_before =>
                  Minutes(charging_events[n].start_time)
                    <= Minutes(charging_events[n + 1].start_time)
    /\ pc = "done" =>
          \A n \in 1..(Len(result[1].charging_events) - 1) :
              Minutes(result[1].charging_events[n].start_time)
                <= Minutes(result[1].charging_events[n + 1].start_time)

\* a slot delivered energy in the tick `last` records: its session was
\* served (lines 273-279) or it was admitted (lines 291-293)
Delivered(i) ==
    \/ last.before[i].remaining > 0
    \/ \E k \in 1..Len(last.emitted) : last.emitted[k] = i

RECURSIVE PowerOfDelivering(_, _)
\* the ratings of the slots that delivered in that tick, added in slot
\* order as line 325 adds
PowerOfDelivering(i, acc) ==
    IF i > Len(charger_states) THEN acc
    ELSE PowerOfDelivering(i + 1,
             IF Delivered(i) THEN FAdd(acc, charger_states[i].power_kw)
             ELSE acc)

\* C29: in every tick each slot that delivered energy in it, by a served
\* session or by an admitted one, is counted with its power_kw in the load
\* of that tick; and a returned total_energy_kwh > 0 comes with an
\* actual_max_kw > 0.
C29_DeliveringSlotsLoaded ==
    /\ (Running /\ last.day >= 0) => last.load_kw >= PowerOfDelivering(1, 0)
    /\ pc = "done" =>
          (result[1].total_energy_kwh > 0 => result[1].actual_max_kw > 0)

\* C30: the events counted under one by_week key lie within seven
\* consecutive calendar days: an event of a tick and any event before it
\* with the same key (line 310) are at most six days apart.
C30_WeekKeySpan ==
    (Running /\ last.day >= 0) =>
        \A n \in (last.events_before + 1)..Len(charging_events) :
            \A m \in 1..n :
                LET earlier == charging_events[m].start_time.date
                    later == charging_events[n].start_time.date
                IN  IsoWeek(earlier) = IsoWeek(later)
                        => Ordinal(later) - Ordinal(earlier) <= 6

====
